---- MODULE Spec2Model ----
(***************************************************************************)
(* Package ledger of the OnOff Integration Store (coordinator.py), the     *)
(* asset choice and the token probe of its Gitea client (gitea.py), and    *)
(* the handlers of its HTTP gateway (dashboard.py).                        *)
(*                                                                         *)
(* The coordinator runs on one cooperative event loop: a coroutine runs    *)
(* without interruption from one await to the next, so every action below  *)
(* is the code between two suspension points.  async_add_or_update_package *)
(* suspends once (awaiting the save), async_check_updates suspends at each *)
(* get_latest_release and at its final save.                               *)
(*                                                                         *)
(* Strings that the code inspects character by character (owner, repo,     *)
(* package_id, asset names) are sequences of one-character strings.        *)
(* Timestamps (datetime.now().isoformat()) are readings of a logical       *)
(* clock; 0 stands for None.                                               *)
(***************************************************************************)
EXTENDS Integers, Sequences, FiniteSets, TLC

VARIABLES
    packages,       \* self.packages: insertion-ordered dict, <<[id, data]>>
    stored,         \* the table last handed to Store.async_save
    clock,          \* next reading of datetime.now()
    add_entities_callback, \* self._add_entities_callback is set
    add_button_entities_callback, \* self._add_button_entities_callback is set
    created,        \* the calls of _create_sensors_for_package, <<[id, sensors, button]>>
    in_pc,          \* async_add_or_update_package: "idle" | "save"
    in_args,        \* its arguments
    in_pid,         \* its local package_id
    in_new,         \* its local is_new_package
    in_ret,         \* the value its last call returned
    in_did,         \* the branch of line 100 its last call took
    n_installs,     \* calls of async_add_or_update_package so far
    sw_pc,          \* async_check_updates: "idle" | "fetch" | "save"
    sw_pos,         \* dict iterator: index of the current item
    sw_size,        \* dict iterator: size of the dict when it was created
    sw_pid,         \* loop variable package_id
    sw_data,        \* loop variable package_data (a reference)
    sw_installed,   \* local installed_version, read before the fetch
    sw_fetched,     \* get_latest_release calls of the current sweep, <<[id, outcome]>>
    sw_alone,       \* no install ran since the current sweep started
    sw_result,      \* how the last sweep ended
    n_sweeps,       \* calls of async_check_updates so far
    pid_in,         \* package_id check: the (owner, repo) pairs
    pid_out,        \* package_id check: the computed ids
    pa_in,          \* pick_asset check: the arguments
    pa_out,         \* pick_asset check: the result
    au_token,       \* test_auth check: the token given to GiteaClient
    au_pc,          \* test_auth: "idle" | "get"
    au_log,         \* test_auth: one entry per call, <<[sent, outcome, ret]>>
    gw_domain,      \* hass.data[DOMAIN]: whether it exists, and its entry ids
    gw_token,       \* client.token of the configured instances
    gw_hidden,      \* the repos the user hid, {<<owner, repo>>}
    gw_custom,      \* coordinator.custom_repos, <<[owner, repo]>>
    gw_pc,          \* the request: "idle" | "delete" | "remove" | "refresh" | "done"
    gw_req,         \* the request being handled
    gw_eid,         \* the entry id the handler resolved
    gw_calls,       \* the calls the handler made, in order
    gw_resp,        \* the response of the handler
    cf_store,       \* store_list.yaml as load_store_list returns it
    cf_pc,          \* config flow: "idle" | "user" | "store_selection" | "created" | "aborted"
    cf_input,       \* config flow: the user_input of the last submission
    cf_errors,      \* config flow: errors of the form last shown, {<<field, error>>}
    cf_data,        \* config flow: self.config_data
    cf_entry,       \* the config entry async_create_entry made
    cf_calls,       \* config flow: the calls its last step made, in order
    cf_abort,       \* config flow: the reason given to async_abort
    of_pc,          \* options flow: "idle" | "init" | "done" | "aborted"
    of_selected,    \* options flow: user_input["packages"] of the last submission
    of_errors,      \* options flow: errors of the form last shown
    of_calls,       \* options flow: the service calls of the last submission
    of_ret,         \* options flow: how _install_packages ended
    of_abort        \* options flow: the reason given to async_abort

ledger_vars == <<packages, stored, clock, add_entities_callback,
                 add_button_entities_callback, created,
                 in_pc, in_args, in_pid, in_new, in_ret, in_did, n_installs,
                 sw_pc, sw_pos, sw_size, sw_pid, sw_data, sw_installed,
                 sw_fetched, sw_alone, sw_result, n_sweeps>>
pid_vars == <<pid_in, pid_out>>
pa_vars == <<pa_in, pa_out>>
au_vars == <<au_token, au_pc, au_log>>
gw_vars == <<gw_domain, gw_token, gw_hidden, gw_custom, gw_pc, gw_req, gw_eid,
             gw_calls, gw_resp>>
cf_vars == <<cf_store, cf_pc, cf_input, cf_errors, cf_data, cf_entry, cf_calls, cf_abort>>
of_vars == <<of_pc, of_selected, of_errors, of_calls, of_ret, of_abort>>
flow_vars == <<cf_vars, of_vars>>
vars == <<ledger_vars, pid_vars, pa_vars, flow_vars, au_vars, gw_vars>>

(***************************************************************************)
(* Bounds of the model.                                                    *)
(***************************************************************************)
\* calls of async_add_or_update_package and async_check_updates in one run
MaxCalls == 3

(***************************************************************************)
(* Strings.                                                                *)
(***************************************************************************)
LowerLetters == <<"a","b","c","d","e","f","g","h","i","j","k","l","m",
                  "n","o","p","q","r","s","t","u","v","w","x","y","z">>
UpperLetters == <<"A","B","C","D","E","F","G","H","I","J","K","L","M",
                  "N","O","P","Q","R","S","T","U","V","W","X","Y","Z">>

\* str.lower() on one character
LowerChar(c) ==
    IF \E i \in DOMAIN UpperLetters : UpperLetters[i] = c
    THEN LowerLetters[CHOOSE i \in DOMAIN UpperLetters : UpperLetters[i] = c]
    ELSE c

\* str.lower()
Lower(s) == [i \in DOMAIN s |-> LowerChar(s[i])]

\* str.replace(old, new) for one-character old and new
Replace(s, old, new) == [i \in DOMAIN s |-> IF s[i] = old THEN new ELSE s[i]]

\* f"{owner}_{repo_name}"
OwnerRepo(owner, repo_name) == owner \o <<"_">> \o repo_name

\* str.replace(old, "") for a one-character old
Remove(s, old) == SelectSeq(s, LAMBDA c : c # old)

PackageId_DropHyphens(owner, repo_name) ==
    LET lowered == Lower(OwnerRepo(owner, repo_name))
        at == Len(owner) + 1
    IN  Remove(SubSeq(lowered, 1, at - 1), "-") \o <<"_">>
        \o Remove(SubSeq(lowered, at + 1, Len(lowered)), "-")

LookupId_KeepCase(owner, repo_name) ==
    Replace(OwnerRepo(owner, repo_name), "-", "_")

\* package_id as async_add_or_update_package computes it
PackageId(owner, repo_name) ==
    Replace(Lower(OwnerRepo(owner, repo_name)), "-", "_")

\* package_id as get_package_by_repo computes it
LookupId(owner, repo_name) ==
    Replace(Lower(OwnerRepo(owner, repo_name)), "-", "_")

(***************************************************************************)
(* The dict self.packages.                                                 *)
(***************************************************************************)
Keys(d) == {d[i].id : i \in DOMAIN d}

\* index of key k in dict d
IndexOf(d, k) == CHOOSE i \in DOMAIN d : d[i].id = k

\* d[k]
Get(d, k) == d[IndexOf(d, k)].data

\* d[k] = v: a present key keeps its place, a new key goes last
Put(d, k, v) ==
    IF k \in Keys(d)
    THEN [d EXCEPT ![IndexOf(d, k)] = [id |-> k, data |-> v]]
    ELSE Append(d, [id |-> k, data |-> v])

NoTime == 0
NoneStr == "None"

(***************************************************************************)
(* Inputs.                                                                 *)
(***************************************************************************)
acme == <<"a","c","m","e">>
cards == <<"c","a","r","d","s">>
ACME == <<"A","C","M","E">>
My_Org == <<"M","y","-","O","r","g">>
Foo_Bar == <<"F","o","o","-","B","a","r">>
my_org_foo == <<"m","y","_","o","r","g","_","f","o","o">>
bar == <<"b","a","r">>

Args(repo_name, owner, package_type, installed_version, mode, asset_name) ==
    [repo_name |-> repo_name, owner |-> owner, package_type |-> package_type,
     installed_version |-> installed_version, mode |-> mode,
     asset_name |-> asset_name]

\* the argument tuples async_add_or_update_package is called with
InstallInputs ==
    { Args(cards, acme, "lovelace", "v1.0", NoneStr, NoneStr),
      Args(cards, ACME, "lovelace", "v1.1", NoneStr, NoneStr),
      Args(Foo_Bar, My_Org, "integration", "v1.0", "asset", "foo.zip"),
      Args(bar, my_org_foo, "blueprints", "v1.1", "zipball", NoneStr) }

NoArgs == Args(<<>>, <<>>, NoneStr, NoneStr, NoneStr, NoneStr)

\* tag_name values the forge answers with
Tags == {"v1.0", "v1.1", "1.0"}

\* what awaiting get_latest_release can produce
FetchOutcomes ==
    [kind : {"release"}, tag : Tags]
    \cup { [kind |-> "release_no_tag", tag |-> NoneStr],
           [kind |-> "empty", tag |-> NoneStr],
           [kind |-> "raise_404", tag |-> NoneStr],
           [kind |-> "raise_other", tag |-> NoneStr] }

\* a call of get_latest_release that has not answered yet
Pending == [kind |-> "pending", tag |-> NoneStr]

\* the call of get_latest_release for the record under package_id
Fetch(package_id) == [id |-> package_id, outcome |-> Pending]

(***************************************************************************)
(* async_add_or_update_package                                             *)
(***************************************************************************)
PackageData_KeepLatest(a, tracked, existing_data, now1, now2) ==
    [repo_name |-> a.repo_name,
     owner |-> a.owner,
     package_type |-> a.package_type,
     installed_version |-> a.installed_version,
     latest_version |-> IF tracked THEN existing_data.latest_version
                        ELSE a.installed_version,
     update_available |-> IF tracked THEN existing_data.update_available
                          ELSE FALSE,
     install_date |-> IF tracked THEN existing_data.install_date ELSE now1,
     last_update |-> now2,
     last_check |-> IF tracked THEN existing_data.last_check ELSE NoTime,
     mode |-> a.mode,
     asset_name |-> a.asset_name]

PackageData_NewInstallDate(a, tracked, existing_data, now1, now2) ==
    [repo_name |-> a.repo_name,
     owner |-> a.owner,
     package_type |-> a.package_type,
     installed_version |-> a.installed_version,
     latest_version |-> a.installed_version,
     update_available |-> FALSE,
     install_date |-> now1,
     last_update |-> now2,
     last_check |-> IF tracked THEN existing_data.last_check ELSE NoTime,
     mode |-> a.mode,
     asset_name |-> a.asset_name]

PackageData_ResetCheck(a, tracked, existing_data, now1, now2) ==
    [repo_name |-> a.repo_name,
     owner |-> a.owner,
     package_type |-> a.package_type,
     installed_version |-> a.installed_version,
     latest_version |-> a.installed_version,
     update_available |-> FALSE,
     install_date |-> IF tracked THEN existing_data.install_date ELSE now1,
     last_update |-> now2,
     last_check |-> NoTime,
     mode |-> a.mode,
     asset_name |-> a.asset_name]

\* the dict built at lines 77-89; existing_data is the record under
\* package_id, if any; now1, now2 are the two readings of datetime.now()
PackageData(a, tracked, existing_data, now1, now2) ==
    [repo_name |-> a.repo_name,
     owner |-> a.owner,
     package_type |-> a.package_type,
     installed_version |-> a.installed_version,
     latest_version |-> a.installed_version,
     update_available |-> FALSE,
     install_date |-> IF tracked THEN existing_data.install_date ELSE now1,
     last_update |-> now2,
     last_check |-> IF tracked THEN existing_data.last_check ELSE NoTime,
     mode |-> a.mode,
     asset_name |-> a.asset_name]

NoData == PackageData(NoArgs, FALSE, NoArgs, NoTime, NoTime)

\* a reference to a record dict: the dict stored under the key in
\* self.packages (live), or a dict that self.packages no longer holds
LiveRef == [live |-> TRUE, rec |-> NoData]
DetachedRef(rec) == [live |-> FALSE, rec |-> rec]

InstallCall_InPlace(a) ==
    LET package_id == PackageId(a.owner, a.repo_name)
        tracked == package_id \in Keys(packages)
        existing_data == IF tracked THEN Get(packages, package_id) ELSE NoData
        package_data == PackageData(a, tracked, existing_data, clock, clock + 1)
    IN  /\ in_pc = "idle"
        /\ n_installs + n_sweeps < MaxCalls
        /\ n_installs' = n_installs + 1
        /\ in_args' = a
        /\ in_pid' = package_id
        /\ in_new' = ~tracked
        /\ clock' = clock + 2
        /\ packages' = Put(packages, package_id, package_data)
        /\ stored' = packages'
        /\ sw_data' = sw_data
        /\ sw_alone' = (sw_alone /\ sw_pc = "idle")
        /\ in_pc' = "save"
        /\ UNCHANGED <<add_entities_callback, add_button_entities_callback,
                   created, in_ret, in_did, sw_pc, sw_pos,
                       sw_size, sw_pid, sw_installed, sw_fetched, sw_result,
                       n_sweeps, pid_vars, pa_vars, flow_vars, au_vars, gw_vars>>

\* lines 68-95, up to the suspension in Store.async_save
InstallCall(a) ==
    LET package_id == PackageId(a.owner, a.repo_name)
        tracked == package_id \in Keys(packages)
        existing_data == IF tracked THEN Get(packages, package_id) ELSE NoData
        package_data == PackageData(a, tracked, existing_data, clock, clock + 1)
    IN  /\ in_pc = "idle"
        /\ n_installs + n_sweeps < MaxCalls
        /\ n_installs' = n_installs + 1
        /\ in_args' = a
        /\ in_pid' = package_id
        /\ in_new' = ~tracked
        /\ clock' = clock + 2
        /\ packages' = Put(packages, package_id, package_data)
        /\ stored' = packages'
        \* the sweep's package_data keeps the dict that line 94 replaced
        /\ sw_data' = IF sw_pc = "fetch" /\ sw_pid = package_id /\ sw_data.live
                      THEN DetachedRef(existing_data)
                      ELSE sw_data
        /\ sw_alone' = (sw_alone /\ sw_pc = "idle")
        /\ in_pc' = "save"
        /\ UNCHANGED <<add_entities_callback, add_button_entities_callback,
                   created, in_ret, in_did, sw_pc, sw_pos,
                       sw_size, sw_pid, sw_installed, sw_fetched, sw_result,
                       n_sweeps, pid_vars, pa_vars, flow_vars, au_vars, gw_vars>>

\* _create_sensors_for_package(package_id, package_data): which of the two
\* callbacks it invokes
CreateSensorsForPackage(package_id) ==
    [id |-> package_id,
     sensors |-> add_entities_callback,
     button |-> add_button_entities_callback]

\* a variant of InstallReturn that creates the entities at every call
InstallReturn_AlwaysCreates ==
    /\ in_pc = "save"
    /\ created' = IF add_entities_callback
                  THEN Append(created, CreateSensorsForPackage(in_pid))
                  ELSE created
    /\ in_did' = IF add_entities_callback THEN "create" ELSE "notify"
    /\ in_ret' = in_pid
    /\ in_pc' = "idle"
    /\ sw_alone' = (sw_alone /\ sw_pc = "idle")
    /\ UNCHANGED <<packages, stored, clock, add_entities_callback,
                   add_button_entities_callback, in_args,
                   in_pid, in_new, n_installs, sw_pc, sw_pos, sw_size, sw_pid,
                   sw_data, sw_installed, sw_fetched, sw_result, n_sweeps,
                   pid_vars, pa_vars, flow_vars, au_vars, gw_vars>>

\* lines 97-119, once the save has returned
InstallReturn ==
    /\ in_pc = "save"
    /\ created' = IF in_new /\ add_entities_callback
                  THEN Append(created, CreateSensorsForPackage(in_pid))
                  ELSE created
    /\ in_did' = IF in_new /\ add_entities_callback THEN "create" ELSE "notify"
    /\ in_ret' = in_pid
    /\ in_pc' = "idle"
    /\ sw_alone' = (sw_alone /\ sw_pc = "idle")
    /\ UNCHANGED <<packages, stored, clock, add_entities_callback, add_button_entities_callback,
                   in_args,
                   in_pid, in_new, n_installs, sw_pc, sw_pos, sw_size, sw_pid,
                   sw_data, sw_installed, sw_fetched, sw_result, n_sweeps,
                   pid_vars, pa_vars, flow_vars, au_vars, gw_vars>>

\* the button platform sets self._add_button_entities_callback
SetButtonEntitiesCallback ==
    /\ ~add_button_entities_callback
    /\ add_button_entities_callback' = TRUE
    /\ UNCHANGED <<packages, stored, clock, add_entities_callback,
                   created, in_pc, in_args, in_pid,
                   in_new, in_ret, in_did, n_installs, sw_pc, sw_pos, sw_size, sw_pid,
                   sw_data, sw_installed, sw_fetched, sw_alone, sw_result,
                   n_sweeps, pid_vars, pa_vars, flow_vars, au_vars, gw_vars>>

\* the sensor platform sets self._add_entities_callback
SetEntitiesCallback ==
    /\ ~add_entities_callback
    /\ add_entities_callback' = TRUE
    /\ UNCHANGED <<packages, stored, clock, add_button_entities_callback,
                   created, in_pc, in_args, in_pid,
                   in_new, in_ret, in_did, n_installs, sw_pc, sw_pos, sw_size, sw_pid,
                   sw_data, sw_installed, sw_fetched, sw_alone, sw_result,
                   n_sweeps, pid_vars, pa_vars, flow_vars, au_vars, gw_vars>>

(***************************************************************************)
(* async_check_updates                                                     *)
(***************************************************************************)
\* the dict the loop variable package_data refers to
Deref(ref, pk, package_id) == IF ref.live THEN Get(pk, package_id) ELSE ref.rec

Checked_CompareLatest(package_data, o, installed_version, now) ==
    IF o.kind \in {"release", "release_no_tag"}
    THEN LET latest_version == IF o.kind = "release" THEN o.tag ELSE "unknown"
             update_available == latest_version # package_data.latest_version
         IN  [package_data EXCEPT !.latest_version = latest_version,
                                  !.update_available = update_available,
                                  !.last_check = now]
    ELSE [package_data EXCEPT !.last_check = now]

Checked_NoStamp(package_data, o, installed_version, now) ==
    IF o.kind \in {"release", "release_no_tag"}
    THEN LET latest_version == IF o.kind = "release" THEN o.tag ELSE "unknown"
             update_available == latest_version # installed_version
         IN  [package_data EXCEPT !.latest_version = latest_version,
                                  !.update_available = update_available]
    ELSE [package_data EXCEPT !.last_check = now]

Checked_ClearOnError(package_data, o, installed_version, now) ==
    IF o.kind \in {"release", "release_no_tag"}
    THEN LET latest_version == IF o.kind = "release" THEN o.tag ELSE "unknown"
             update_available == latest_version # installed_version
         IN  [package_data EXCEPT !.latest_version = latest_version,
                                  !.update_available = update_available,
                                  !.last_check = now]
    ELSE [package_data EXCEPT !.update_available = FALSE, !.last_check = now]

\* lines 197-227: what the loop body does to package_data once the fetch
\* has answered with outcome o; installed_version is the local of line 190
Checked(package_data, o, installed_version, now) ==
    IF o.kind \in {"release", "release_no_tag"}
    THEN LET latest_version == IF o.kind = "release" THEN o.tag ELSE "unknown"
             update_available == latest_version # installed_version
         IN  [package_data EXCEPT !.latest_version = latest_version,
                                  !.update_available = update_available,
                                  !.last_check = now]
    ELSE [package_data EXCEPT !.last_check = now]

\* line 186: a step of the iterator of self.packages.items(), created when
\* the dict had `size` items, now past item `pos`, the dict now having `len`
\* items: RuntimeError when the size changed, else the next item or the end
DictIterNext(pos, size, len) ==
    IF len # size THEN "error"
    ELSE IF pos < size THEN "item"
    ELSE "stop"

LoopStep_BreakOnError(o, pos, size, len) ==
    IF o.kind \in {"raise_404", "raise_other"} /\ len = size THEN "stop"
    ELSE IF len # size THEN "error"
    ELSE IF pos < size THEN "item"
    ELSE "stop"

\* lines 186-227: where the loop goes once the body has handled outcome o.
\* Every outcome is handled inside the body (the except clause catches any
\* exception of the fetch), so the for statement takes its next step
LoopStep(o, pos, size, len) == DictIterNext(pos, size, len)

\* lines 180-195: the empty check, the iterator, and the first loop body up
\* to its suspension in get_latest_release
SweepStart ==
    /\ sw_pc = "idle"
    /\ n_installs + n_sweeps < MaxCalls
    /\ n_sweeps' = n_sweeps + 1
    /\ sw_alone' = (in_pc = "idle")
    /\ IF packages = <<>>
       THEN /\ sw_result' = "skipped"
            /\ sw_fetched' = <<>>
            /\ UNCHANGED <<sw_pc, sw_pos, sw_size, sw_pid, sw_data, sw_installed>>
       ELSE /\ sw_result' = "running"
            /\ sw_size' = Len(packages)
            /\ sw_pos' = 1
            /\ sw_pid' = packages[1].id
            /\ sw_data' = LiveRef
            /\ sw_installed' = packages[1].data.installed_version
            /\ sw_fetched' = <<Fetch(packages[1].id)>>
            /\ sw_pc' = "fetch"
    /\ UNCHANGED <<packages, stored, clock, add_entities_callback, add_button_entities_callback,
                   created,
                   in_pc, in_args, in_pid, in_new, in_ret, in_did, n_installs,
                   pid_vars, pa_vars, flow_vars, au_vars, gw_vars>>

\* lines 197-230 and 186-195: the rest of the loop body after the fetch
\* answered with o, then the next step of the for statement: the dict
\* iterator raises RuntimeError when the dict changed size, else the next
\* body runs up to its fetch, or the loop ends and the save is called
SweepFetchReturn(o) ==
    LET package_data == Checked(Deref(sw_data, packages, sw_pid), o,
                                sw_installed, clock)
        pk == IF sw_data.live THEN Put(packages, sw_pid, package_data)
              ELSE packages
        answered == [sw_fetched EXCEPT ![Len(sw_fetched)].outcome = o]
        step == LoopStep(o, sw_pos, sw_size, Len(pk))
    IN  /\ sw_pc = "fetch"
        /\ clock' = clock + 1
        /\ packages' = pk
        /\ CASE step = "error" ->
                /\ sw_pc' = "idle"
                /\ sw_result' = "aborted"
                /\ sw_data' = LiveRef
                /\ sw_fetched' = answered
                /\ UNCHANGED <<stored, sw_pos, sw_pid, sw_installed>>
             [] step = "item" ->
                /\ sw_pos' = sw_pos + 1
                /\ sw_pid' = pk[sw_pos + 1].id
                /\ sw_data' = LiveRef
                /\ sw_installed' = pk[sw_pos + 1].data.installed_version
                /\ sw_fetched' = Append(answered, Fetch(pk[sw_pos + 1].id))
                /\ UNCHANGED <<stored, sw_pc, sw_result>>
             [] step = "stop" ->
                /\ stored' = pk
                /\ sw_pc' = "save"
                /\ sw_data' = LiveRef
                /\ sw_fetched' = answered
                /\ UNCHANGED <<sw_pos, sw_pid, sw_installed, sw_result>>
        /\ UNCHANGED <<add_entities_callback, add_button_entities_callback,
                   created, in_pc, in_args, in_pid,
                       in_new, in_ret, in_did, n_installs, sw_size, sw_alone, n_sweeps,
                       pid_vars, pa_vars, flow_vars, au_vars, gw_vars>>

\* lines 232-235, once the save has returned
SweepReturn ==
    /\ sw_pc = "save"
    /\ sw_pc' = "idle"
    /\ sw_result' = "completed"
    /\ UNCHANGED <<packages, stored, clock, add_entities_callback, add_button_entities_callback,
                   created,
                   in_pc, in_args, in_pid, in_new, in_ret, in_did, n_installs, sw_pos,
                   sw_size, sw_pid, sw_data, sw_installed, sw_fetched, sw_alone,
                   n_sweeps, pid_vars, pa_vars, flow_vars, au_vars, gw_vars>>

(***************************************************************************)
(* The ledger: installs and sweeps on one event loop.                      *)
(***************************************************************************)
NoPid == <<>>

LedgerInit ==
    /\ packages = <<>>
    /\ stored = <<>>
    /\ clock = 1
    /\ add_entities_callback = FALSE
    /\ add_button_entities_callback = FALSE
    /\ created = <<>>
    /\ in_pc = "idle"
    /\ in_args = NoArgs
    /\ in_pid = NoPid
    /\ in_new = FALSE
    /\ in_ret = NoPid
    /\ in_did = "none"
    /\ n_installs = 0
    /\ sw_pc = "idle"
    /\ sw_pos = 0
    /\ sw_size = 0
    /\ sw_pid = NoPid
    /\ sw_data = LiveRef
    /\ sw_installed = NoneStr
    /\ sw_fetched = <<>>
    /\ sw_alone = TRUE
    /\ sw_result = "none"
    /\ n_sweeps = 0

PidIdle == pid_in = NoArgs /\ pid_out = NoArgs
PaIdle == pa_in = NoArgs /\ pa_out = NoArgs
AuIdle == au_token = NoneStr /\ au_pc = "idle" /\ au_log = <<>>

\* a field that a JSON body does not carry: body.get(key) is None
Missing == <<"None">>

\* a request body: bad is true when request.json() raises or the JSON is
\* not an object; type, mode and asset_name are NoneStr when not carried
Body(bad, owner, repo, type, mode, asset_name) ==
    [bad |-> bad, owner |-> owner, repo |-> repo, type |-> type,
     mode |-> mode, asset_name |-> asset_name]

NoBody == Body(FALSE, Missing, Missing, NoneStr, NoneStr, NoneStr)

\* a request: the endpoint, the JSON body, the {owner}/{repo} of the path
Request(endpoint, body, owner, repo) ==
    [endpoint |-> endpoint, body |-> body, owner |-> owner, repo |-> repo]

NoRequest == Request("none", NoBody, <<>>, <<>>)

\* web.json_response / web.Response: content is "json" or "text"; body is
\* "error" for {"error": ...}, "success" for {"success": True}, "list" for
\* the listing (carried in data), or the text of a text response
Response(status, content, body, data) ==
    [status |-> status, content |-> content, body |-> body, data |-> data]

NoResponse == Response(0, "none", "none", <<>>)

GwIdle ==
    /\ gw_domain = [present |-> FALSE, eids |-> <<>>]
    /\ gw_token = NoneStr
    /\ gw_hidden = {}
    /\ gw_custom = <<>>
    /\ gw_pc = "idle"
    /\ gw_req = NoRequest
    /\ gw_eid = NoneStr
    /\ gw_calls = <<>>
    /\ gw_resp = NoResponse

\* a pending_installs that was never assigned
NoPending == <<Missing>>

\* self.config_data: {} until the user step fills token and owner, and the
\* store-selection step pending_installs
ConfigData(token, owner, pending_installs) ==
    [token |-> token, owner |-> owner, pending_installs |-> pending_installs]

NoConfigData == ConfigData(Missing, Missing, NoPending)

\* what async_create_entry(title="OnOff Store", data=...) made, if anything
ConfigEntry(data) == [created |-> TRUE, data |-> data]

NoEntry == [created |-> FALSE, data |-> NoConfigData]

\* the user_input of a form submission: a field the form did not send is
\* Missing, and packages NoPending
FormInput(token, owner, selected) ==
    [token |-> token, owner |-> owner, packages |-> selected]

NoInput == FormInput(Missing, Missing, NoPending)

CfIdle ==
    /\ cf_store = <<>>
    /\ cf_pc = "idle"
    /\ cf_input = NoInput
    /\ cf_errors = {}
    /\ cf_data = NoConfigData
    /\ cf_entry = NoEntry
    /\ cf_calls = <<>>
    /\ cf_abort = NoneStr

OfIdle ==
    /\ of_pc = "idle"
    /\ of_selected = <<>>
    /\ of_errors = {}
    /\ of_calls = <<>>
    /\ of_ret = "none"
    /\ of_abort = NoneStr

FlowIdle == CfIdle /\ OfIdle

Init == LedgerInit /\ PidIdle /\ PaIdle /\ AuIdle /\ GwIdle /\ FlowIdle

Next ==
    \/ \E a \in InstallInputs : InstallCall(a)
    \/ InstallReturn
    \/ SetEntitiesCallback
    \/ SetButtonEntitiesCallback
    \/ SweepStart
    \/ \E o \in FetchOutcomes : SweepFetchReturn(o)
    \/ SweepReturn

Spec == Init /\ [][Next]_vars

(***************************************************************************)
(* package_id, as a function of (owner, repo_name): the two places of the  *)
(* code that compute it, applied to a pair and to a second spelling of it. *)
(***************************************************************************)
MaxNameLen == 2

NameChars == {"a", "A", "-", "_"}

Strings(chars, n) == UNION {[1..k -> chars] : k \in 0..n}

\* t is s with the case of some letters changed
CaseVariant(s, t) ==
    /\ Len(s) = Len(t)
    /\ \A i \in DOMAIN s :
          \/ s[i] = t[i]
          \/ \E k \in DOMAIN LowerLetters :
                {s[i], t[i]} = {LowerLetters[k], UpperLetters[k]}

\* the spellings of s that differ from it in letter case only
Variants(s) == {t \in [DOMAIN s -> NameChars] : CaseVariant(s, t)}

\* a name together with a second spelling of it
Spellings ==
    UNION { {<<s, t>> : t \in Variants(s)} : s \in Strings(NameChars, MaxNameLen) }

\* pairs (owner, repo_name), each with a second spelling, and the pair of
\* the documented example
PidCases ==
    { [owner |-> o[1], repo_name |-> r[1], owner2 |-> o[2], repo_name2 |-> r[2]] :
        o \in Spellings, r \in Spellings }
    \cup { [owner |-> My_Org, repo_name |-> Foo_Bar,
            owner2 |-> My_Org, repo_name2 |-> Foo_Bar] }

PidPending == [add |-> NoPid, add2 |-> NoPid, lookup |-> NoPid, lookup2 |-> NoPid]

\* line 68 for both spellings
PidAdd ==
    /\ pid_out.add = NoPid
    /\ pid_out' = [pid_out EXCEPT
                     !.add = PackageId(pid_in.owner, pid_in.repo_name),
                     !.add2 = PackageId(pid_in.owner2, pid_in.repo_name2)]
    /\ UNCHANGED <<ledger_vars, pid_in, pa_vars, flow_vars, au_vars, gw_vars>>

\* line 243 for both spellings
PidLookup ==
    /\ pid_out.lookup = NoPid
    /\ pid_out' = [pid_out EXCEPT
                     !.lookup = LookupId(pid_in.owner, pid_in.repo_name),
                     !.lookup2 = LookupId(pid_in.owner2, pid_in.repo_name2)]
    /\ UNCHANGED <<ledger_vars, pid_in, pa_vars, flow_vars, au_vars, gw_vars>>

PidInit ==
    LedgerInit /\ PaIdle /\ AuIdle /\ GwIdle /\ FlowIdle /\ pid_in \in PidCases /\ pid_out = PidPending

PidNext == PidAdd \/ PidLookup

PidSpec == PidInit /\ [][PidNext]_vars

(***************************************************************************)
(* GiteaClient.pick_asset                                                  *)
(***************************************************************************)
MaxAssets == 3

a_zip == <<"a", ".", "z", "i", "p">>
B_ZIP == <<"B", ".", "Z", "i", "P">>
c_txt == <<"c", ".", "t", "x", "t">>
zip == <<"z", "i", "p">>
dot_zip == <<".", "z", "i", "p">>

\* an asset of a release; has_name is false when "name" is missing or null
Asset(id, has_name, name) == [id |-> id, has_name |-> has_name, name |-> name]

AssetNames == {a_zip, B_ZIP, c_txt, zip}

\* the asset lists of a release; the id of an asset is its place in the list
AssetLists ==
    UNION { { [i \in 1..k |-> Asset(i, f[i] # <<>>, f[i])] :
                f \in [1..k -> AssetNames \cup {<<>>}] } : k \in 0..MaxAssets }

\* a release; assets_null is true when "assets" is missing or null
Releases ==
    { [assets_null |-> FALSE, assets |-> l] : l \in AssetLists }
    \cup { [assets_null |-> TRUE, assets |-> <<>>] }

\* asset_name; <<>> stands for None and for "", which the code treats alike
AssetNameArgs == {<<>>, a_zip, c_txt, dot_zip}

\* str.endswith
EndsWith(s, suffix) ==
    /\ Len(s) >= Len(suffix)
    /\ SubSeq(s, Len(s) - Len(suffix) + 1, Len(s)) = suffix

\* (a.get("name") or "").lower().endswith(".zip")
IsZip(a) == EndsWith(Lower(IF a.has_name THEN a.name ELSE <<>>), dot_zip)

Returned(a) == [ok |-> TRUE, asset |-> a, error |-> NoneStr]
Raised(e) == [ok |-> FALSE, asset |-> Asset(0, FALSE, <<>>), error |-> e]

PickNamed_FallBack(assets, asset_name) ==
    IF \E i \in DOMAIN assets : assets[i].has_name /\ assets[i].name = asset_name
    THEN Returned(assets[CHOOSE i \in DOMAIN assets :
                     /\ assets[i].has_name /\ assets[i].name = asset_name
                     /\ \A j \in 1..(i - 1) :
                           ~(assets[j].has_name /\ assets[j].name = asset_name)])
    ELSE IF Len(SelectSeq(assets, IsZip)) = 1
    THEN Returned(SelectSeq(assets, IsZip)[1])
    ELSE IF Len(assets) = 1 THEN Returned(assets[1])
    ELSE Raised("not found")

\* lines 68-72
PickNamed(assets, asset_name) ==
    IF \E i \in DOMAIN assets : assets[i].has_name /\ assets[i].name = asset_name
    THEN Returned(assets[CHOOSE i \in DOMAIN assets :
                     /\ assets[i].has_name /\ assets[i].name = asset_name
                     /\ \A j \in 1..(i - 1) :
                           ~(assets[j].has_name /\ assets[j].name = asset_name)])
    ELSE Raised("not found")

PickUnnamed_FirstZip(assets) ==
    LET zips == SelectSeq(assets, IsZip)
    IN  IF Len(zips) >= 1 THEN Returned(zips[1])
        ELSE IF Len(assets) = 1 THEN Returned(assets[1])
        ELSE Raised("multiple")

\* lines 74-82
PickUnnamed(assets) ==
    LET zips == SelectSeq(assets, IsZip)
    IN  IF Len(zips) = 1 THEN Returned(zips[1])
        ELSE IF Len(assets) = 1 THEN Returned(assets[1])
        ELSE Raised("multiple")

\* pick_asset(release, asset_name)
PickAsset(release, asset_name) ==
    LET assets == IF release.assets_null THEN <<>> ELSE release.assets
    IN  IF assets = <<>> THEN Raised("no assets")
        ELSE IF asset_name # <<>> THEN PickNamed(assets, asset_name)
        ELSE PickUnnamed(assets)

PaPending == Raised("pending")

PickAssetCall ==
    /\ pa_out = PaPending
    /\ pa_out' = PickAsset(pa_in.release, pa_in.asset_name)
    /\ UNCHANGED <<ledger_vars, pid_vars, pa_in, flow_vars, au_vars, gw_vars>>

PaInit ==
    /\ LedgerInit
    /\ PidIdle
    /\ AuIdle
    /\ GwIdle
    /\ FlowIdle
    /\ pa_in \in [release : Releases, asset_name : AssetNameArgs]
    /\ pa_out = PaPending

PaNext == PickAssetCall

PaSpec == PaInit /\ [][PaNext]_vars

(***************************************************************************)
(* GiteaClient.test_auth                                                   *)
(***************************************************************************)
\* calls of test_auth in one run
MaxAuthCalls == 2

\* the token argument of GiteaClient(hass, base_url, token)
TokenArgs == {NoneStr, "", "secret"}

\* line 15: self.token = token or None
ClientToken(token) == IF token = "" THEN NoneStr ELSE token

\* what GET /api/v1/user can bring: an answer with a status, or an exception
\* of the session (connection failure, timeout, the session closed)
AuthOutcomes ==
    { [kind |-> "status", status |-> st] : st \in {200, 201, 301, 401, 403, 404, 500} }
    \cup { [kind |-> k, status |-> 0] : k \in {"ClientError", "TimeoutError", "RuntimeError"} }

NoOutcome == [kind |-> "none", status |-> 0]

AuthReturned(b) == [raised |-> FALSE, value |-> b]
AuthRaised == [raised |-> TRUE, value |-> FALSE]

TestAuthAnswer_Any2xx(o) ==
    IF o.kind = "status" THEN AuthReturned(o.status \div 100 = 2)
    ELSE AuthReturned(FALSE)

\* lines 30-37: the value of test_auth once the request has ended with o
TestAuthAnswer(o) ==
    IF o.kind = "status" THEN AuthReturned(o.status = 200)
    ELSE AuthReturned(FALSE)

\* lines 26-33: test_auth up to its return without a token, or to its request
TestAuthCall ==
    /\ au_pc = "idle"
    /\ Len(au_log) < MaxAuthCalls
    /\ IF ClientToken(au_token) = NoneStr
       THEN /\ au_log' = Append(au_log, [sent |-> FALSE, outcome |-> NoOutcome,
                                         ret |-> AuthReturned(TRUE)])
            /\ au_pc' = "idle"
       ELSE /\ au_pc' = "get"
            /\ au_log' = au_log
    /\ UNCHANGED <<ledger_vars, pid_vars, pa_vars, flow_vars, au_token, gw_vars>>

\* lines 33-37: the request ends and test_auth returns
TestAuthReturn(o) ==
    /\ au_pc = "get"
    /\ au_log' = Append(au_log, [sent |-> TRUE, outcome |-> o,
                                 ret |-> TestAuthAnswer(o)])
    /\ au_pc' = "idle"
    /\ UNCHANGED <<ledger_vars, pid_vars, pa_vars, flow_vars, au_token, gw_vars>>

AuInit ==
    /\ LedgerInit
    /\ PidIdle
    /\ PaIdle
    /\ GwIdle
    /\ FlowIdle
    /\ au_token \in TokenArgs
    /\ au_pc = "idle"
    /\ au_log = <<>>

AuNext ==
    \/ TestAuthCall
    \/ \E o \in AuthOutcomes : TestAuthReturn(o)

AuSpec == AuInit /\ [][AuNext]_vars

(***************************************************************************)
(* The HTTP gateway (dashboard.py).  A run handles one request; the state  *)
(* it meets (active instances, token, ledger, hidden and custom repos) and *)
(* what the registry, the executor and the ledger answer are chosen        *)
(* freely.  Every active instance holds a client and a coordinator.        *)
(***************************************************************************)
\* the entry id the views are registered with (lines 50-58)
EntryId == "e1"

\* hass.data[DOMAIN]: missing, or a dict keyed by entry id
DomainStates ==
    { [present |-> FALSE, eids |-> <<>>] }
    \cup { [present |-> TRUE, eids |-> l] :
             l \in {<<>>, <<"e1">>, <<"e2">>, <<"e2", "e1">>, <<"e2", "e3">>} }

ResolveInstance_NoFallback(domain) ==
    IF ~domain.present THEN [ok |-> FALSE, eid |-> NoneStr]
    ELSE IF \E i \in DOMAIN domain.eids : domain.eids[i] = EntryId
    THEN [ok |-> TRUE, eid |-> EntryId]
    ELSE [ok |-> FALSE, eid |-> NoneStr]

\* lines 74-83 (and the same lines of every other handler)
ResolveInstance(domain) ==
    IF ~domain.present THEN [ok |-> FALSE, eid |-> NoneStr]
    ELSE IF \E i \in DOMAIN domain.eids : domain.eids[i] = EntryId
    THEN [ok |-> TRUE, eid |-> EntryId]
    ELSE IF domain.eids = <<>> THEN [ok |-> FALSE, eid |-> NoneStr]
    ELSE [ok |-> TRUE, eid |-> domain.eids[1]]

JsonError(status) == Response(status, "json", "error", <<>>)
JsonSuccess == Response(200, "json", "success", <<>>)
JsonList(data) == Response(200, "json", "list", data)
Text(status, text) == Response(status, "text", text, <<>>)

\* an exception that leaves the handler
Escaped == Response(0, "exception", "none", <<>>)

Caught_Escapes(endpoint) == Escaped

\* the except clause that encloses each handler's body
Caught(endpoint) ==
    IF endpoint = "readme" THEN Text(500, "Error") ELSE JsonError(500)

\* the answer of a handler that finds no instance
NotReady(endpoint) ==
    IF endpoint = "readme" THEN Text(503, "Not ready") ELSE JsonError(503)

\* "not o": None and "" are false
Falsy(x) == x = Missing \/ x = <<>>

\* body.get("type", "integration")
TypeOf(body) == IF body.type = NoneStr THEN "integration" ELSE body.type

\* the arguments of a call the handler makes
CallArgs(owner, repo, type, mode, asset_name) ==
    [owner |-> owner, repo |-> repo, type |-> type, mode |-> mode,
     asset_name |-> asset_name]

NoCallArgs == CallArgs(<<>>, <<>>, NoneStr, NoneStr, NoneStr)

OwnerRepoArgs(owner, repo) == CallArgs(owner, repo, NoneStr, NoneStr, NoneStr)

\* a call of the handler: to the registry client, the executor, the service
\* registry or the coordinator of instance eid; ok is false when it raised
Call(name, eid, args, ok) == [call |-> name, eid |-> eid, args |-> args, ok |-> ok]

\* lines 246-252: svc_data; a key that is not set is NoneStr
SvcData(body) ==
    CallArgs(body.owner, body.repo, TypeOf(body),
             IF body.mode \in {NoneStr, ""} THEN NoneStr ELSE body.mode,
             IF body.asset_name \in {NoneStr, ""} THEN NoneStr ELSE body.asset_name)

(***************************************************************************)
(* Operations of the coordinator that dashboard.py calls.                  *)
(***************************************************************************)
\* del d[k]
Del(d, k) == SelectSeq(d, LAMBDA e : e.id # k)

RemovePackage_KeepRecord(pk, owner, repo) == pk

\* coordinator.async_remove_package(owner, repo)
RemovePackage(pk, owner, repo) == Del(pk, PackageId(owner, repo))

\* coordinator.async_add_custom_repo(owner, repo)
AddCustomRepo(custom, owner, repo) ==
    IF \E i \in DOMAIN custom : custom[i] = [owner |-> owner, repo |-> repo]
    THEN custom
    ELSE Append(custom, [owner |-> owner, repo |-> repo])

\* coordinator.async_hide_repo(owner, repo)
HideRepo(hidden, owner, repo) == hidden \cup {<<owner, repo>>}

\* coordinator.async_unhide_repo(owner, repo)
UnhideRepo(hidden, owner, repo) == hidden \ {<<owner, repo>>}

\* coordinator.is_hidden_repo(owner, repo)
IsHiddenRepo(hidden, owner, repo) == <<owner, repo>> \in hidden

\* coordinator.is_custom_repo(owner, repo)
IsCustomRepo(custom, owner, repo) ==
    \E i \in DOMAIN custom : custom[i] = [owner |-> owner, repo |-> repo]

\* coordinator.get_package_by_repo(owner, repo_name) is not None
IsTracked(pk, owner, repo_name) == LookupId(owner, repo_name) \in Keys(pk)

(***************************************************************************)
(* What the forge holds, and the listing of GET /repos.                    *)
(***************************************************************************)
Zing == <<"Z","i","n","g">>
OnOffPublic == <<"O","n","O","f","f","P","u","b","l","i","c">>
me == <<"m","e">>
x_tool == <<"x","-","t","o","o","l">>
X_priv == <<"X","-","p","r","i","v">>
x_lab == <<"x","-","l","a","b">>
x_dash == <<"x","-">>
card == <<"c","a","r","d">>
lovelace == <<"l","o","v","e","l","a","c","e">>
theme == <<"t","h","e","m","e">>
blueprint == <<"b","l","u","e","p","r","i","n","t">>

\* a repository object of the forge's API; full_name is <<>> when missing
Repo(full_name, owner, name, description) ==
    [full_name |-> full_name, owner |-> owner, name |-> name,
     description |-> description]

FullName(owner, name) == owner \o <<"/">> \o name

\* GET /api/v1/orgs/{org}/repos
ForgeOrgRepos(org) ==
    IF org = Zing
    THEN << Repo(FullName(Zing, x_tool), Zing, x_tool, <<>>),
            Repo(FullName(Zing, cards), Zing, cards, <<>>) >>
    ELSE IF org = OnOffPublic
    THEN << Repo(FullName(OnOffPublic, bar), OnOffPublic, bar, theme),
            Repo(<<>>, OnOffPublic, cards, <<>>) >>
    ELSE IF org = acme
    THEN << Repo(FullName(acme, cards), acme, cards, <<>>),
            Repo(FullName(acme, X_priv), acme, X_priv, blueprint) >>
    ELSE << >>

\* GET /api/v1/user/orgs: the names of the user's organizations
ForgeUserOrgs == <<acme>>

\* GET /api/v1/user/repos: acme/cards comes with another description than
\* in the listing of acme
ForgeUserRepos ==
    << Repo(FullName(me, x_lab), me, x_lab, <<>>),
       Repo(FullName(acme, cards), acme, cards, theme),
       Repo(FullName(my_org_foo, bar), my_org_foo, bar, <<>>) >>

\* the repositories a listing names
Listed(l) == {l[i] : i \in DOMAIN l}

\* the repositories GET /api/v1/repos/{owner}/{repo} answers with: as the
\* organization's listing has them, else as the user's listing has them
ForgeRepos ==
    LET in_orgs == Listed(ForgeOrgRepos(Zing)) \cup Listed(ForgeOrgRepos(OnOffPublic))
                   \cup Listed(ForgeOrgRepos(acme))
    IN  in_orgs \cup {r \in Listed(ForgeUserRepos) :
                        \A q \in in_orgs : q.full_name # r.full_name}

\* GET /api/v1/repos/{owner}/{repo} finds a repository
ForgeHasRepo(owner, repo) ==
    \E r \in ForgeRepos : r.full_name # <<>> /\ r.owner = owner /\ r.name = repo

ForgeRepo(owner, repo) ==
    CHOOSE r \in ForgeRepos : r.full_name # <<>> /\ r.owner = owner /\ r.name = repo

\* the packages of store_list.yaml
YamlItem(owner, repo, mode, asset_name) ==
    [owner |-> owner, repo |-> repo, mode |-> mode, asset_name |-> asset_name]

YamlLists ==
    { <<>>,
      << YamlItem(acme, cards, "zipball", NoneStr),
         YamlItem(Zing, x_tool, "asset", "tool.zip"),
         YamlItem(acme, bar, NoneStr, NoneStr) >> }

\* the fetches of GET /repos that can fail
FetchKinds == {"get_repo", "get_user_orgs", "get_org_repos", "user_repos"}

\* the fetches that fail while one request is handled: none, one kind, all
Downs == {{}} \cup {{k} : k \in FetchKinds} \cup {FetchKinds}

\* the orders in which the set orgs_to_fetch can be iterated
OrgOrders ==
    { <<a, b, c>> : a, b, c \in {Zing, OnOffPublic, acme} } \
    { o \in { <<a, b, c>> : a, b, c \in {Zing, OnOffPublic, acme} } :
        o[1] = o[2] \/ o[1] = o[3] \/ o[2] = o[3] }

\* str.startswith
StartsWith(s, prefix) ==
    /\ Len(s) >= Len(prefix)
    /\ SubSeq(s, 1, Len(prefix)) = prefix

\* sub in s
Contains(s, sub) ==
    \E i \in 1..(Len(s) - Len(sub) + 1) : SubSeq(s, i, i + Len(sub) - 1) = sub

\* what _fill reads besides its arguments: the store list and the coordinator
FillContext(yaml_items, custom, hidden, pk) ==
    [yaml_items |-> yaml_items, custom |-> custom, hidden |-> hidden, pk |-> pk]

\* line 177: the repository is left out of the listing
Filtered(r, ctx, bypass_filter, is_authenticated) ==
    /\ ~bypass_filter
    /\ ~is_authenticated
    /\ StartsWith(Lower(r.name), x_dash)
    /\ ~IsCustomRepo(ctx.custom, r.owner, r.name)

\* lines 180-215: the entry of the listing for repository r
Entry(r, ctx) ==
    LET owner == r.owner
        rn == r.name
        tracked == IsTracked(ctx.pk, owner, rn)
        p == IF tracked THEN Get(ctx.pk, LookupId(owner, rn)) ELSE NoData
        in_yaml == \E i \in DOMAIN ctx.yaml_items :
                      ctx.yaml_items[i].owner = owner /\ ctx.yaml_items[i].repo = rn
        y_pkg == ctx.yaml_items[CHOOSE i \in DOMAIN ctx.yaml_items :
                    /\ ctx.yaml_items[i].owner = owner /\ ctx.yaml_items[i].repo = rn
                    /\ \A j \in 1..(i - 1) :
                          ~(ctx.yaml_items[j].owner = owner /\ ctx.yaml_items[j].repo = rn)]
        desc == Lower(r.description)
        pkg_type ==
            IF tracked THEN p.package_type
            ELSE IF \/ Contains(Lower(rn), card) \/ Contains(Lower(rn), lovelace)
                    \/ Contains(desc, card) \/ Contains(desc, theme)
            THEN "lovelace"
            ELSE IF Contains(Lower(rn), blueprint) \/ Contains(desc, blueprint)
            THEN "blueprints"
            ELSE "integration"
    IN  [name |-> r.full_name,
         repo_name |-> rn,
         owner |-> owner,
         type |-> pkg_type,
         description |-> r.description,
         mode |-> IF tracked THEN p.mode ELSE IF in_yaml THEN y_pkg.mode ELSE NoneStr,
         asset_name |-> IF tracked THEN p.asset_name
                        ELSE IF in_yaml THEN y_pkg.asset_name ELSE NoneStr,
         is_installed |-> tracked,
         update_available |-> IF tracked THEN p.update_available ELSE FALSE,
         latest_version |-> IF tracked THEN p.latest_version ELSE NoneStr,
         is_hidden |-> IsHiddenRepo(ctx.hidden, owner, rn)]

\* a variant of _fill in which a later source replaces the entry of an
\* earlier one
Fill_LastWins(data_list, r, ctx, bypass_filter, is_authenticated) ==
    IF r.full_name = <<>> THEN data_list
    ELSE IF Filtered(r, ctx, bypass_filter, is_authenticated) THEN data_list
    ELSE IF \E i \in DOMAIN data_list : data_list[i].name = r.full_name
    THEN [i \in DOMAIN data_list |->
            IF data_list[i].name = r.full_name THEN Entry(r, ctx) ELSE data_list[i]]
    ELSE Append(data_list, Entry(r, ctx))

\* _fill(data_list, r, coord, yaml_items, bypass_filter, is_authenticated)
Fill(data_list, r, ctx, bypass_filter, is_authenticated) ==
    IF r.full_name = <<>>
       \/ \E i \in DOMAIN data_list : data_list[i].name = r.full_name
    THEN data_list
    ELSE IF Filtered(r, ctx, bypass_filter, is_authenticated) THEN data_list
    ELSE Append(data_list, Entry(r, ctx))

\* for r in repos: self._fill(...)
RECURSIVE FillAll(_, _, _, _, _)
FillAll(data_list, repos, ctx, bypass_filter, is_authenticated) ==
    IF repos = <<>> THEN data_list
    ELSE FillAll(Fill(data_list, Head(repos), ctx, bypass_filter, is_authenticated),
                 Tail(repos), ctx, bypass_filter, is_authenticated)

\* the listing under construction and the calls made for it
Listing(data, calls) == [data |-> data, calls |-> calls]

\* lines 104-110: the store list, each item fetched with get_repo
RECURSIVE YamlLoop(_, _, _, _, _, _)
YamlLoop(s, ys, eid, ctx, is_authenticated, down) ==
    IF ys = <<>> THEN s
    ELSE LET y == Head(ys)
             ok == "get_repo" \notin down /\ ForgeHasRepo(y.owner, y.repo)
             c == Call("get_repo", eid, OwnerRepoArgs(y.owner, y.repo), ok)
             d == IF ok
                  THEN Fill(s.data, ForgeRepo(y.owner, y.repo), ctx, TRUE,
                            is_authenticated)
                  ELSE s.data
         IN  YamlLoop(Listing(d, Append(s.calls, c)), Tail(ys), eid, ctx,
                      is_authenticated, down)

\* lines 114-127: the organizations to list
OrgsToFetch(is_authenticated, down) ==
    {Zing, OnOffPublic}
    \cup IF is_authenticated /\ "get_user_orgs" \notin down
         THEN {ForgeUserOrgs[i] : i \in DOMAIN ForgeUserOrgs}
         ELSE {}

\* lines 118-127: the call of get_user_orgs
UserOrgsCalls(eid, is_authenticated, down) ==
    IF is_authenticated
    THEN <<Call("get_user_orgs", eid, NoCallArgs, "get_user_orgs" \notin down)>>
    ELSE <<>>

\* lines 129-136: the repositories of each organization, in the order orgs
RECURSIVE OrgLoop(_, _, _, _, _)
OrgLoop(s, orgs, eid, ctx, down) ==
    IF orgs = <<>> THEN s
    ELSE LET o == Head(orgs)
             ok == "get_org_repos" \notin down
             c == Call("get_org_repos", eid, OwnerRepoArgs(o, <<>>), ok)
             d == IF ok THEN FillAll(s.data, ForgeOrgRepos(o), ctx, FALSE, FALSE)
                  ELSE s.data
         IN  OrgLoop(Listing(d, Append(s.calls, c)), Tail(orgs), eid, ctx, down)

UserRepos_Unprobed(s, eid, ctx, is_authenticated, down) ==
    LET ok == "user_repos" \notin down
        c == Call("user_repos", eid, NoCallArgs, ok)
        d == IF ok THEN FillAll(s.data, ForgeUserRepos, ctx, TRUE, TRUE)
             ELSE s.data
    IN  Listing(d, Append(s.calls, c))

\* lines 138-149: the user's own repositories
UserRepos(s, eid, ctx, is_authenticated, down) ==
    IF ~is_authenticated THEN s
    ELSE LET ok == "user_repos" \notin down
             c == Call("user_repos", eid, NoCallArgs, ok)
             d == IF ok THEN FillAll(s.data, ForgeUserRepos, ctx, TRUE, TRUE)
                  ELSE s.data
         IN  Listing(d, Append(s.calls, c))

\* lines 152-158: the custom repos that the listing does not hold yet
RECURSIVE CustomLoop(_, _, _, _, _, _)
CustomLoop(s, crs, eid, ctx, is_authenticated, down) ==
    IF crs = <<>> THEN s
    ELSE LET cr == Head(crs)
             listed == \E i \in DOMAIN s.data :
                          /\ Lower(s.data[i].owner) = Lower(cr.owner)
                          /\ Lower(s.data[i].repo_name) = Lower(cr.repo)
             ok == "get_repo" \notin down /\ ForgeHasRepo(cr.owner, cr.repo)
             c == Call("get_repo", eid, OwnerRepoArgs(cr.owner, cr.repo), ok)
             d == IF ok
                  THEN Fill(s.data, ForgeRepo(cr.owner, cr.repo), ctx, TRUE,
                            is_authenticated)
                  ELSE s.data
         IN  CustomLoop(IF listed THEN s ELSE Listing(d, Append(s.calls, c)),
                        Tail(crs), eid, ctx, is_authenticated, down)

\* lines 96-160: the listing, once the store list is loaded
ReposListing(eid, ctx, is_authenticated, down, order) ==
    LET orgs == OrgsToFetch(is_authenticated, down)
        s1 == YamlLoop(Listing(<<>>, <<>>), ctx.yaml_items, eid, ctx,
                       is_authenticated, down)
        s2 == Listing(s1.data, s1.calls \o UserOrgsCalls(eid, is_authenticated, down))
        s3 == OrgLoop(s2, SelectSeq(order, LAMBDA o : o \in orgs), eid, ctx, down)
        s4 == UserRepos(s3, eid, ctx, is_authenticated, down)
    IN  CustomLoop(s4, ctx.custom, eid, ctx, is_authenticated, down)

\* the outcomes of the probe that GET /repos is handled with
ProbeOutcomes ==
    { o \in AuthOutcomes : o.kind = "TimeoutError" \/ o.status \in {200, 401} }

\* the frame of a handler that leaves the coordinator's state alone
GwReadOnly ==
    UNCHANGED <<ledger_vars, pid_vars, pa_vars, flow_vars, au_vars, gw_domain, gw_token,
                gw_hidden, gw_custom>>

\* OnOffStoreReposView.get: o is how the probe ends, yaml_items the store
\* list (load_store_list returns [] when it fails), down the fetches that
\* fail, order the order of the organizations
ReposGet(o, yaml_items, down, order) ==
    LET res == ResolveInstance(gw_domain)
        has_token == gw_token # NoneStr
        is_authenticated == has_token /\ TestAuthAnswer(o).value
        probe == IF has_token
                 THEN <<Call("test_auth", res.eid, NoCallArgs, is_authenticated)>>
                 ELSE <<>>
        load == <<Call("load_store_list", res.eid, NoCallArgs, TRUE)>>
        ctx == FillContext(yaml_items, gw_custom, gw_hidden, packages)
        l == ReposListing(res.eid, ctx, is_authenticated, down, order)
    IN  /\ gw_pc = "idle"
        /\ gw_req' = Request("repos", NoBody, <<>>, <<>>)
        /\ gw_eid' = res.eid
        /\ IF ~res.ok
           THEN gw_calls' = <<>> /\ gw_resp' = NotReady("repos")
           ELSE gw_calls' = probe \o load \o l.calls /\ gw_resp' = JsonList(l.data)
        /\ gw_pc' = "done"
        /\ GwReadOnly

\* the (owner, repo) of the bodies
BodyPairs ==
    { <<Missing, Missing>>, <<Missing, cards>>, <<acme, Missing>>,
      <<<<>>, cards>>, <<acme, <<>>>>, <<acme, cards>>, <<My_Org, Foo_Bar>>,
      <<Zing, x_tool>> }

\* the bodies of the POST requests
Bodies ==
    { Body(TRUE, Missing, Missing, NoneStr, NoneStr, NoneStr) }
    \cup { Body(FALSE, p[1], p[2], NoneStr, NoneStr, NoneStr) : p \in BodyPairs }
    \cup { Body(FALSE, p[1], p[2], "lovelace", "asset", "foo.zip") : p \in BodyPairs }

\* OnOffStoreInstallView.post: svc_ok is whether the service call returns
InstallPost(b, svc_ok) ==
    LET res == ResolveInstance(gw_domain)
    IN  /\ gw_pc = "idle"
        /\ gw_req' = Request("install", b, <<>>, <<>>)
        /\ gw_eid' = res.eid
        /\ IF ~res.ok
           THEN gw_calls' = <<>> /\ gw_resp' = NotReady("install")
           ELSE IF b.bad
           THEN gw_calls' = <<>> /\ gw_resp' = Caught("install")
           ELSE IF Falsy(b.owner) \/ Falsy(b.repo)
           THEN gw_calls' = <<>> /\ gw_resp' = JsonError(400)
           ELSE /\ gw_calls' = <<Call("services.async_call", NoneStr, SvcData(b), svc_ok)>>
                /\ gw_resp' = IF svc_ok THEN JsonSuccess ELSE Caught("install")
        /\ gw_pc' = "done"
        /\ GwReadOnly

\* what client.get_readme can bring
ReadmeOutcomes == {"text", "empty", "raise"}

\* OnOffStoreReadmeView.get
ReadmeGet(owner, repo, o) ==
    LET res == ResolveInstance(gw_domain)
    IN  /\ gw_pc = "idle"
        /\ gw_req' = Request("readme", NoBody, owner, repo)
        /\ gw_eid' = res.eid
        /\ IF ~res.ok
           THEN gw_calls' = <<>> /\ gw_resp' = NotReady("readme")
           ELSE /\ gw_calls' = <<Call("get_readme", res.eid,
                                      OwnerRepoArgs(owner, repo), o # "raise")>>
                /\ gw_resp' = IF o = "raise" THEN Caught("readme")
                              ELSE IF o = "empty"
                              THEN Text(200, "No README found for this repository.")
                              ELSE Text(200, "readme")
        /\ gw_pc' = "done"
        /\ GwReadOnly

\* OnOffStoreRefreshView.post, up to its call of async_check_updates
RefreshPost ==
    LET res == ResolveInstance(gw_domain)
    IN  /\ gw_pc = "idle"
        /\ gw_req' = Request("refresh", NoBody, <<>>, <<>>)
        /\ gw_eid' = res.eid
        /\ IF ~res.ok
           THEN gw_calls' = <<>> /\ gw_resp' = NotReady("refresh") /\ gw_pc' = "done"
           ELSE /\ gw_calls' = <<Call("async_check_updates", res.eid, NoCallArgs, TRUE)>>
                /\ gw_resp' = NoResponse
                /\ gw_pc' = "refresh"
        /\ GwReadOnly

\* the call's ok, once it has returned or raised
Ended(calls, ok) == [calls EXCEPT ![Len(calls)].ok = ok]

\* OnOffStoreRefreshView.post, once async_check_updates has ended
RefreshReturn ==
    /\ gw_pc = "refresh"
    /\ sw_pc = "idle"
    /\ sw_result \in {"skipped", "completed", "aborted"}
    /\ gw_calls' = Ended(gw_calls, sw_result # "aborted")
    /\ gw_resp' = IF sw_result = "aborted" THEN Caught("refresh") ELSE JsonSuccess
    /\ gw_pc' = "done"
    /\ UNCHANGED <<gw_req, gw_eid>>
    /\ GwReadOnly

\* OnOffStoreAddCustomView.post: ok is whether the coordinator's call returns
AddCustomPost(b, ok) ==
    LET res == ResolveInstance(gw_domain)
        called == ~b.bad /\ ~Falsy(b.owner) /\ ~Falsy(b.repo) /\ res.ok
    IN  /\ gw_pc = "idle"
        /\ gw_req' = Request("custom/add", b, <<>>, <<>>)
        /\ gw_eid' = IF called THEN res.eid ELSE NoneStr
        /\ gw_resp' = IF b.bad THEN Caught("custom/add")
                      ELSE IF Falsy(b.owner) \/ Falsy(b.repo) THEN JsonError(400)
                      ELSE IF ~res.ok THEN NotReady("custom/add")
                      ELSE IF ok THEN JsonSuccess ELSE Caught("custom/add")
        /\ gw_calls' = IF called
                       THEN <<Call("async_add_custom_repo", res.eid,
                                   OwnerRepoArgs(b.owner, b.repo), ok)>>
                       ELSE <<>>
        /\ gw_custom' = IF called /\ ok THEN AddCustomRepo(gw_custom, b.owner, b.repo)
                        ELSE gw_custom
        /\ gw_pc' = "done"
        /\ UNCHANGED <<ledger_vars, pid_vars, pa_vars, flow_vars, au_vars, gw_domain,
                       gw_token, gw_hidden>>

\* OnOffStoreHideView.post
HidePost(b, ok) ==
    LET res == ResolveInstance(gw_domain)
        called == ~b.bad /\ res.ok
    IN  /\ gw_pc = "idle"
        /\ gw_req' = Request("hide", b, <<>>, <<>>)
        /\ gw_eid' = IF called THEN res.eid ELSE NoneStr
        /\ gw_resp' = IF b.bad THEN Caught("hide")
                      ELSE IF ~res.ok THEN NotReady("hide")
                      ELSE IF ok THEN JsonSuccess ELSE Caught("hide")
        /\ gw_calls' = IF called
                       THEN <<Call("async_hide_repo", res.eid,
                                   OwnerRepoArgs(b.owner, b.repo), ok)>>
                       ELSE <<>>
        /\ gw_hidden' = IF called /\ ok THEN HideRepo(gw_hidden, b.owner, b.repo)
                        ELSE gw_hidden
        /\ gw_pc' = "done"
        /\ UNCHANGED <<ledger_vars, pid_vars, pa_vars, flow_vars, au_vars, gw_domain,
                       gw_token, gw_custom>>

\* OnOffStoreUnhideView.post
UnhidePost(b, ok) ==
    LET res == ResolveInstance(gw_domain)
        called == ~b.bad /\ res.ok
    IN  /\ gw_pc = "idle"
        /\ gw_req' = Request("unhide", b, <<>>, <<>>)
        /\ gw_eid' = IF called THEN res.eid ELSE NoneStr
        /\ gw_resp' = IF b.bad THEN Caught("unhide")
                      ELSE IF ~res.ok THEN NotReady("unhide")
                      ELSE IF ok THEN JsonSuccess ELSE Caught("unhide")
        /\ gw_calls' = IF called
                       THEN <<Call("async_unhide_repo", res.eid,
                                   OwnerRepoArgs(b.owner, b.repo), ok)>>
                       ELSE <<>>
        /\ gw_hidden' = IF called /\ ok THEN UnhideRepo(gw_hidden, b.owner, b.repo)
                        ELSE gw_hidden
        /\ gw_pc' = "done"
        /\ UNCHANGED <<ledger_vars, pid_vars, pa_vars, flow_vars, au_vars, gw_domain,
                       gw_token, gw_custom>>

\* OnOffStoreUninstallView.post, up to its await of the executor job
UninstallPost(b) ==
    LET res == ResolveInstance(gw_domain)
        called == ~b.bad /\ ~Falsy(b.owner) /\ ~Falsy(b.repo) /\ res.ok
    IN  /\ gw_pc = "idle"
        /\ gw_req' = Request("uninstall", b, <<>>, <<>>)
        /\ gw_eid' = IF called THEN res.eid ELSE NoneStr
        /\ gw_resp' = IF b.bad THEN Caught("uninstall")
                      ELSE IF Falsy(b.owner) \/ Falsy(b.repo) THEN JsonError(400)
                      ELSE IF ~res.ok THEN NotReady("uninstall")
                      ELSE NoResponse
        /\ gw_calls' = IF called
                       THEN <<Call("uninstall_package", res.eid,
                                   CallArgs(<<>>, b.repo, TypeOf(b), NoneStr, NoneStr),
                                   TRUE)>>
                       ELSE <<>>
        /\ gw_pc' = IF called THEN "delete" ELSE "done"
        /\ GwReadOnly

UninstallDeleted_RemovesAnyway(ok) ==
    /\ gw_pc = "delete"
    /\ IF ok
       THEN /\ gw_calls' = Append(gw_calls,
                                  Call("async_remove_package", gw_eid,
                                       OwnerRepoArgs(gw_req.body.owner, gw_req.body.repo),
                                       TRUE))
            /\ packages' = RemovePackage(packages, gw_req.body.owner, gw_req.body.repo)
            /\ stored' = packages'
            /\ gw_resp' = gw_resp
            /\ gw_pc' = "remove"
       ELSE /\ gw_calls' = Ended(gw_calls, FALSE)
            /\ packages' = RemovePackage(packages, gw_req.body.owner, gw_req.body.repo)
            /\ stored' = packages'
            /\ gw_resp' = Caught("uninstall")
            /\ gw_pc' = "done"
    /\ UNCHANGED <<clock, add_entities_callback, add_button_entities_callback,
                   created, in_pc, in_args, in_pid,
                   in_new, in_ret, in_did, n_installs, sw_pc, sw_pos, sw_size, sw_pid,
                   sw_data, sw_installed, sw_fetched, sw_alone, sw_result,
                   n_sweeps, pid_vars, pa_vars, flow_vars, au_vars, gw_domain, gw_token,
                   gw_hidden, gw_custom, gw_req, gw_eid>>

\* lines 435-437: uninstall_package has ended; if it returned, the handler
\* calls async_remove_package, which runs up to its save
UninstallDeleted(ok) ==
    /\ gw_pc = "delete"
    /\ IF ok
       THEN /\ gw_calls' = Append(gw_calls,
                                  Call("async_remove_package", gw_eid,
                                       OwnerRepoArgs(gw_req.body.owner, gw_req.body.repo),
                                       TRUE))
            /\ packages' = RemovePackage(packages, gw_req.body.owner, gw_req.body.repo)
            /\ stored' = packages'
            /\ gw_resp' = gw_resp
            /\ gw_pc' = "remove"
       ELSE /\ gw_calls' = Ended(gw_calls, FALSE)
            /\ UNCHANGED <<packages, stored>>
            /\ gw_resp' = Caught("uninstall")
            /\ gw_pc' = "done"
    /\ UNCHANGED <<clock, add_entities_callback, add_button_entities_callback,
                   created, in_pc, in_args, in_pid,
                   in_new, in_ret, in_did, n_installs, sw_pc, sw_pos, sw_size, sw_pid,
                   sw_data, sw_installed, sw_fetched, sw_alone, sw_result,
                   n_sweeps, pid_vars, pa_vars, flow_vars, au_vars, gw_domain, gw_token,
                   gw_hidden, gw_custom, gw_req, gw_eid>>

\* lines 437-441: async_remove_package has ended
UninstallRemoved(ok) ==
    /\ gw_pc = "remove"
    /\ gw_calls' = Ended(gw_calls, ok)
    /\ gw_resp' = IF ok THEN JsonSuccess ELSE Caught("uninstall")
    /\ gw_pc' = "done"
    /\ UNCHANGED <<gw_req, gw_eid>>
    /\ GwReadOnly

\* async_add_or_update_package(a) on the ledger d at time now
Installed(d, a, now) ==
    LET package_id == PackageId(a.owner, a.repo_name)
        tracked == package_id \in Keys(d)
    IN  Put(d, package_id,
            PackageData(a, tracked, IF tracked THEN Get(d, package_id) ELSE NoData,
                        now, now + 1))

\* the ledgers a request meets: empty, after one install, after two
GwLedgers ==
    LET a1 == Args(cards, acme, "lovelace", "v1.0", NoneStr, NoneStr)
        a2 == Args(Foo_Bar, My_Org, "integration", "v1.0", "asset", "foo.zip")
    IN  { [packages |-> <<>>, clock |-> 1],
          [packages |-> Installed(<<>>, a1, 1), clock |-> 3],
          [packages |-> Installed(Installed(<<>>, a1, 1), a2, 3), clock |-> 5] }

GwInit ==
    /\ \E l \in GwLedgers :
          /\ packages = l.packages
          /\ stored = l.packages
          /\ clock = l.clock
    /\ add_entities_callback = FALSE
    /\ add_button_entities_callback = FALSE
    /\ created = <<>>
    /\ in_pc = "idle"
    /\ in_args = NoArgs
    /\ in_pid = NoPid
    /\ in_new = FALSE
    /\ in_ret = NoPid
    /\ in_did = "none"
    /\ n_installs = 0
    /\ sw_pc = "idle"
    /\ sw_pos = 0
    /\ sw_size = 0
    /\ sw_pid = NoPid
    /\ sw_data = LiveRef
    /\ sw_installed = NoneStr
    /\ sw_fetched = <<>>
    /\ sw_alone = TRUE
    /\ sw_result = "none"
    /\ n_sweeps = 0
    /\ PidIdle
    /\ PaIdle
    /\ AuIdle
    /\ FlowIdle
    /\ gw_domain \in DomainStates
    /\ gw_token \in {NoneStr, "secret"}
    /\ gw_hidden \in {{}, {<<acme, cards>>}}
    /\ gw_custom \in {<<>>, <<[owner |-> Zing, repo |-> x_tool],
                              [owner |-> me, repo |-> x_lab]>>}
    \* without an instance there is no client and no coordinator
    /\ ~ResolveInstance(gw_domain).ok =>
          /\ packages = <<>>
          /\ gw_token = NoneStr
          /\ gw_hidden = {}
          /\ gw_custom = <<>>
    /\ gw_pc = "idle"
    /\ gw_req = NoRequest
    /\ gw_eid = NoneStr
    /\ gw_calls = <<>>
    /\ gw_resp = NoResponse

GwNext ==
    \/ \E o \in IF gw_token = NoneStr THEN {NoOutcome} ELSE ProbeOutcomes,
          yaml_items \in YamlLists, down \in Downs, order \in OrgOrders :
          ReposGet(o, yaml_items, down, order)
    \/ \E b \in Bodies, svc_ok \in BOOLEAN : InstallPost(b, svc_ok)
    \/ \E owner \in {acme}, repo \in {cards, bar}, o \in ReadmeOutcomes :
          ReadmeGet(owner, repo, o)
    \/ RefreshPost
    \/ gw_pc = "refresh" /\ sw_result = "none" /\ SweepStart
    \/ gw_pc = "refresh" /\ \E o \in FetchOutcomes : SweepFetchReturn(o)
    \/ gw_pc = "refresh" /\ SweepReturn
    \/ RefreshReturn
    \/ \E b \in Bodies, ok \in BOOLEAN : AddCustomPost(b, ok)
    \/ \E b \in Bodies, ok \in BOOLEAN : HidePost(b, ok)
    \/ \E b \in Bodies, ok \in BOOLEAN : UnhidePost(b, ok)
    \/ \E b \in Bodies : UninstallPost(b)
    \/ \E ok \in BOOLEAN : UninstallDeleted(ok)
    \/ \E ok \in BOOLEAN : UninstallRemoved(ok)

GwSpec == GwInit /\ [][GwNext]_vars

(***************************************************************************)
(* The config flow and the options flow (config_flow.py).                  *)
(***************************************************************************)
\* the longest selection a form submission carries
MaxSelected == 2

\* an entry of store_list.yaml as load_store_list returns it (a non-empty
\* dict): owner and repo are Missing, type, mode and asset_name NoneStr,
\* when the entry does not carry them
StorePkg(owner, repo, type, mode, asset_name) ==
    [owner |-> owner, repo |-> repo, type |-> type, mode |-> mode,
     asset_name |-> asset_name]

\* the store lists a flow meets: load_store_list returns [] when the file
\* is absent, empty or unreadable
CfStores ==
    { <<>>,
      << StorePkg(acme, cards, "lovelace", "zipball", NoneStr),
         StorePkg(Missing, x_tool, NoneStr, "asset", "tool.zip"),
         StorePkg(acme, bar, "blueprints", NoneStr, NoneStr),
         StorePkg(Zing, x_tool, "theme", NoneStr, NoneStr),
         StorePkg(acme, Missing, "integration", NoneStr, NoneStr) >> }

\* pkg.get(key, '')
GetOrEmpty(x) == IF x = Missing THEN <<>> ELSE x

\* f"{pkg.get('owner', '')}_{pkg.get('repo', '')}"
PkgKey(pkg) == GetOrEmpty(pkg.owner) \o <<"_">> \o GetOrEmpty(pkg.repo)

\* a key that no entry of the store list has
no_such == <<"n","o","_","s","u","c","h">>

\* the values of user_input["packages"]: lists of keys, in the order chosen
Selections(store) ==
    LET keys == {PkgKey(store[i]) : i \in DOMAIN store} \cup {no_such}
    IN  UNION { [1..n -> keys] : n \in 0..MaxSelected }

\* str.lstrip, for the blank
RECURSIVE LStrip(_)
LStrip(s) == IF s # <<>> /\ Head(s) = " " THEN LStrip(Tail(s)) ELSE s

\* str.rstrip, for the blank
RECURSIVE RStrip(_)
RStrip(s) ==
    IF s # <<>> /\ s[Len(s)] = " " THEN RStrip(SubSeq(s, 1, Len(s) - 1)) ELSE s

\* str.strip
Strip(s) == RStrip(LStrip(s))

\* user_input.get(key, "").strip() or None
StrippedOrNone(x) ==
    LET v == Strip(GetOrEmpty(x))
    IN  IF v = <<>> THEN Missing ELSE v

\* the user form's input
UserInput(token, owner) == FormInput(token, owner, NoPending)

UserInputs ==
    { UserInput(t, o) :
        t \in {Missing, <<>>, <<" ">>, <<"s">>, <<" ", "s", " ">>},
        o \in {Missing, acme, <<" ">>} }

\* the flow manager starts the flow: async_step_user(None) shows the form
CfStart ==
    /\ cf_pc = "idle"
    /\ cf_pc' = "user"
    /\ cf_errors' = {}
    /\ cf_calls' = <<>>
    /\ UNCHANGED <<ledger_vars, pid_vars, pa_vars, au_vars, gw_vars, of_vars,
                   cf_store, cf_input, cf_data, cf_entry, cf_abort>>

\* a variant of UserErrors that accepts every token
UserErrors_AcceptsAll(ans) == {}

\* async_step_user: the errors after the connection test, ans being how
\* test_auth ended
UserErrors(ans) ==
    IF ans.raised THEN {<<"base", "cannot_connect">>}
    ELSE IF ~ans.value THEN {<<"token", "invalid_auth">>}
    ELSE {}

\* async_step_user(user_input), with async_step_store_selection(None) and
\* _show_store_form when it goes on: o is how the GET of test_auth ends
StepUser(user_input, o) ==
    LET token == StrippedOrNone(user_input.token)
        owner == StrippedOrNone(user_input.owner)
        ans == IF token # Missing THEN TestAuthAnswer(o) ELSE AuthReturned(TRUE)
        errors == UserErrors(ans)
        probe == IF token # Missing
                 THEN <<Call("test_auth", NoneStr, NoCallArgs, ans.value)>>
                 ELSE <<>>
    IN  /\ cf_pc = "user"
        /\ (o = NoOutcome) <=> (token = Missing)
        /\ cf_input' = user_input
        /\ cf_errors' = errors
        /\ IF errors = {}
           THEN /\ cf_data' = ConfigData(GetOrEmpty(token), GetOrEmpty(owner), NoPending)
                /\ cf_calls' = probe \o <<Call("load_store_list", NoneStr, NoCallArgs, TRUE)>>
                /\ IF cf_store = <<>>
                   THEN cf_pc' = "aborted" /\ cf_abort' = "no_packages"
                   ELSE cf_pc' = "store_selection" /\ cf_abort' = cf_abort
           ELSE /\ cf_data' = cf_data
                /\ cf_calls' = probe
                /\ cf_pc' = "user"
                /\ cf_abort' = cf_abort
        /\ UNCHANGED <<ledger_vars, pid_vars, pa_vars, au_vars, gw_vars, of_vars,
                       cf_store, cf_entry>>

\* a variant of PendingInstalls that stores nothing
PendingInstalls_Dropped(selected) == <<>>

\* async_step_store_selection: what goes into pending_installs
PendingInstalls(selected) == IF selected # <<>> THEN selected ELSE <<>>

\* async_step_store_selection(user_input), selected being
\* user_input.get("packages", [])
StepStoreSelection(selected) ==
    LET data == [cf_data EXCEPT !.pending_installs = PendingInstalls(selected)]
    IN  /\ cf_pc = "store_selection"
        /\ cf_input' = FormInput(Missing, Missing, selected)
        /\ cf_data' = data
        /\ cf_entry' = ConfigEntry(data)
        /\ cf_pc' = "created"
        /\ cf_calls' = <<>>
        /\ UNCHANGED <<ledger_vars, pid_vars, pa_vars, au_vars, gw_vars, of_vars,
                       cf_store, cf_errors, cf_abort>>

CfInit ==
    /\ LedgerInit
    /\ PidIdle
    /\ PaIdle
    /\ AuIdle
    /\ GwIdle
    /\ OfIdle
    /\ cf_store \in CfStores
    /\ cf_pc = "idle"
    /\ cf_input = NoInput
    /\ cf_errors = {}
    /\ cf_data = NoConfigData
    /\ cf_entry = NoEntry
    /\ cf_calls = <<>>
    /\ cf_abort = NoneStr

CfNext ==
    \/ CfStart
    \/ \E user_input \in UserInputs, o \in AuthOutcomes \cup {NoOutcome} :
          StepUser(user_input, o)
    \/ \E selected \in Selections(cf_store) : StepStoreSelection(selected)

CfSpec == CfInit /\ [][CfNext]_vars

\* the index of the first store entry with the key, 0 when there is none
FindPkg(store, key) ==
    LET hits == {i \in DOMAIN store : PkgKey(store[i]) = key}
    IN  IF hits = {} THEN 0 ELSE CHOOSE i \in hits : \A j \in hits : i <= j

\* the package types _install_packages has a service for
ServiceName(pkg_type) ==
    CASE pkg_type = "integration" -> "install_integration"
      [] pkg_type = "lovelace" -> "install_lovelace"
      [] pkg_type = "blueprints" -> "install_blueprints"
      [] OTHER -> NoneStr

\* how _install_packages ends: it returns value, or it raises
\* HomeAssistantError; calls are the service calls it made
BatchReturned(value, calls) == [raised |-> FALSE, value |-> value, calls |-> calls]
BatchRaised(calls) == [raised |-> TRUE, value |-> FALSE, calls |-> calls]

\* a variant of TracksIntegration that takes every type for an integration
TracksIntegration_AnyType(pkg_type) == TRUE

\* _install_packages: the package sets installed_integration
TracksIntegration(pkg_type) == pkg_type = "integration"

\* a variant of Reraised that swallows the failure of the service call
Reraised_Swallowed(ok) == FALSE

\* _install_packages: a failed service call is raised as HomeAssistantError
Reraised(ok) == ~ok

\* the loop of _install_packages from the i-th selected key on: fail is the
\* index of the key whose service call fails, 0 when none does
RECURSIVE InstallLoop(_, _, _, _, _, _, _)
InstallLoop(selected_keys, i, store, entry_owner, fail, calls, installed_integration) ==
    IF i > Len(selected_keys) THEN BatchReturned(installed_integration, calls)
    ELSE
    LET k == FindPkg(store, selected_keys[i])
    IN  IF k = 0
        THEN InstallLoop(selected_keys, i + 1, store, entry_owner, fail, calls,
                         installed_integration)
        ELSE
        LET pkg == store[k]
            repo == pkg.repo
            owner == IF pkg.owner = Missing THEN entry_owner ELSE pkg.owner
            pkg_type == IF pkg.type = NoneStr THEN "integration" ELSE pkg.type
            mode == IF pkg.mode \in {NoneStr, ""} THEN NoneStr ELSE pkg.mode
            asset_name == IF pkg.asset_name \in {NoneStr, ""} THEN NoneStr
                          ELSE pkg.asset_name
            tracked == installed_integration \/ TracksIntegration(pkg_type)
            call == Call(ServiceName(pkg_type), NoneStr,
                         CallArgs(owner, repo, NoneStr, mode, asset_name), i # fail)
        IN  IF Falsy(repo) \/ Falsy(owner) THEN BatchRaised(calls)
            ELSE IF ServiceName(pkg_type) = NoneStr THEN BatchRaised(calls)
            ELSE IF Reraised(i # fail) THEN BatchRaised(Append(calls, call))
            ELSE InstallLoop(selected_keys, i + 1, store, entry_owner, fail,
                             Append(calls, call), tracked)

\* OptionsFlowHandler._install_packages(selected_keys)
InstallPackages(selected_keys, store, entry_owner, fail) ==
    InstallLoop(selected_keys, 1, store, entry_owner, fail, <<>>, FALSE)

\* the persistent_notification.create call of async_step_init
RestartNotification ==
    Call("persistent_notification.create", NoneStr, NoCallArgs, TRUE)

\* the options flow is opened: async_step_init(None)
OptStart ==
    /\ of_pc = "idle"
    /\ cf_entry.created
    /\ of_errors' = {}
    /\ IF cf_store = <<>>
       THEN of_pc' = "aborted" /\ of_abort' = "no_packages_in_store"
       ELSE of_pc' = "init" /\ of_abort' = of_abort
    /\ UNCHANGED <<ledger_vars, pid_vars, pa_vars, au_vars, gw_vars, cf_vars,
                   of_selected, of_calls, of_ret>>

\* async_step_init(user_input), selected being user_input.get("packages", [])
OptSubmit(selected, fail) ==
    LET run == InstallPackages(selected, cf_store, cf_entry.data.owner, fail)
    IN  /\ of_pc = "init"
        /\ fail \in 0..Len(selected)
        /\ of_selected' = selected
        /\ IF selected = <<>>
           THEN /\ of_calls' = <<>>
                /\ of_ret' = "none"
                /\ of_errors' = {}
                /\ of_pc' = "done"
                /\ of_abort' = of_abort
           ELSE IF ~run.raised
           THEN /\ of_calls' = run.calls \o
                                (IF run.value THEN <<RestartNotification>> ELSE <<>>)
                /\ of_ret' = IF run.value THEN "true" ELSE "false"
                /\ of_errors' = {}
                /\ of_pc' = "done"
                /\ of_abort' = of_abort
           ELSE /\ of_calls' = run.calls
                /\ of_ret' = "raised"
                /\ of_errors' = {<<"base", "install_failed">>}
                /\ IF cf_store = <<>>
                   THEN of_pc' = "aborted" /\ of_abort' = "no_packages_in_store"
                   ELSE of_pc' = "init" /\ of_abort' = of_abort
        /\ UNCHANGED <<ledger_vars, pid_vars, pa_vars, au_vars, gw_vars, cf_vars>>

\* the config entries an options flow is opened on
OfEntries ==
    { ConfigEntry(ConfigData(<<>>, owner, <<>>)) : owner \in {<<>>, acme} }

OfInit ==
    /\ LedgerInit
    /\ PidIdle
    /\ PaIdle
    /\ AuIdle
    /\ GwIdle
    /\ OfIdle
    /\ cf_store \in CfStores
    /\ cf_pc = "created"
    /\ cf_input = NoInput
    /\ cf_errors = {}
    /\ cf_entry \in OfEntries
    /\ cf_data = cf_entry.data
    /\ cf_calls = <<>>
    /\ cf_abort = NoneStr

OfNext ==
    \/ OptStart
    \/ \E selected \in Selections(cf_store), fail \in 0..MaxSelected :
          OptSubmit(selected, fail)

OfSpec == OfInit /\ [][OfNext]_vars

(***************************************************************************)
(* Properties of the ledger, checked under Spec.                           *)
(***************************************************************************)
\* the step of async_add_or_update_package up to its await of the save
InstallCallStep == in_pc = "idle" /\ in_pc' = "save"

\* the step in which async_add_or_update_package returns
InstallReturnStep == in_pc = "save" /\ in_pc' = "idle"

\* the step in which the pending get_latest_release answers with outcome o
FetchAnswers(o) ==
    /\ sw_pc = "fetch"
    /\ sw_fetched[Len(sw_fetched)].outcome = Pending
    /\ sw_fetched'[Len(sw_fetched)].outcome = o

Raises == {o \in FetchOutcomes : o.kind \in {"raise_404", "raise_other"}}

\* C1: async_add_or_update_package(repo, owner, type, v) stores, under the
\* package_id it returns, a record with installed_version = v,
\* latest_version = v and update_available = false, whatever the ledger held
\* under that key before.  This holds of the record as the call writes it
\* (before it awaits the save) and, when the call returns, the returned value
\* is the key of the record of (owner, repo) with installed_version = v; its
\* latest_version and update_available are still v and false then unless a
\* sweep has checked that record since the install wrote it (last_check
\* later than last_update), the one other writer of these two fields.
C1_InstallSetsVersions ==
    [][ /\ InstallCallStep =>
            /\ in_pid' \in Keys(packages')
            /\ LET r == Get(packages', in_pid')
                   v == in_args'.installed_version
               IN  /\ r.installed_version = v
                   /\ r.latest_version = v
                   /\ r.update_available = FALSE
        /\ InstallReturnStep =>
            /\ in_ret' = in_pid
            /\ in_ret' \in Keys(packages')
            /\ LET r == Get(packages', in_ret')
                   v == in_args.installed_version
               IN  /\ r.owner = in_args.owner
                   /\ r.repo_name = in_args.repo_name
                   /\ r.installed_version = v
                   /\ r.last_check < r.last_update =>
                         r.latest_version = v /\ r.update_available = FALSE
      ]_vars

\* a reinstall with another version, of a record that a sweep had checked,
\* has returned
C1_Witness ==
    /\ in_pc = "idle"
    /\ in_ret # NoPid
    /\ ~in_new
    /\ in_ret \in Keys(packages)
    /\ LET r == Get(packages, in_ret)
       IN  /\ r.last_check # NoTime
           /\ r.installed_version = "v1.1"
           /\ r.latest_version = "v1.1"
           /\ r.update_available = FALSE

\* C2: when get_latest_release answers with a release tagged T for a record
\* of the ledger, the sweep sets that record's latest_version to T and its
\* update_available to (T # installed_version), a comparison of the two
\* strings and nothing else; installed_version is left as it is.  (When the
\* package was reinstalled during the fetch, package_data is the dict that
\* the reinstall replaced and no record of the ledger is the one fetched for.)
C2_UpdateIsStringInequality ==
    [][ \A T \in Tags :
          (FetchAnswers([kind |-> "release", tag |-> T]) /\ sw_data.live) =>
             LET before == Get(packages, sw_pid)
                 after == Get(packages', sw_pid)
             IN  /\ after.latest_version = T
                 /\ after.update_available = (T # before.installed_version)
                 /\ after.installed_version = before.installed_version
      ]_vars

\* a sweep found the older tag v1.0 for a record installed at v1.1
C2_Witness ==
    /\ sw_pc = "save"
    /\ \E i \in DOMAIN sw_fetched :
          /\ sw_fetched[i].outcome = [kind |-> "release", tag |-> "v1.0"]
          /\ sw_fetched[i].id \in Keys(packages)
          /\ LET r == Get(packages, sw_fetched[i].id)
             IN  /\ r.installed_version = "v1.1"
                 /\ r.latest_version = "v1.0"
                 /\ r.update_available = TRUE

\* C3: when get_latest_release raises for a record (a 404 or any other
\* error), update_available and latest_version of the ledger's record under
\* that package_id are what they were, and the record fetched for gets
\* last_check = the time of that step of the sweep.
C3_FailedFetchKeepsUpdateState ==
    [][ \A o \in Raises :
          FetchAnswers(o) =>
             LET before == Get(packages, sw_pid)
                 after == Get(packages', sw_pid)
             IN  /\ after.update_available = before.update_available
                 /\ after.latest_version = before.latest_version
                 /\ sw_data.live => after.last_check = clock
      ]_vars

\* a record with an update available was swept again and its fetch raised
C3_Witness ==
    /\ sw_pc = "save"
    /\ sw_fetched[1].outcome \in Raises
    /\ LET r == Get(packages, sw_fetched[1].id)
       IN  /\ r.update_available = TRUE
           /\ r.latest_version # r.installed_version
           /\ r.last_check = clock - 1

\* C4: a sweep of a non-empty ledger during which no install runs is never
\* aborted and calls get_latest_release for the records in the order of the
\* ledger, once each, whatever the fetches answer: at every moment the calls
\* made are for the first records of the ledger, the one call pending is the
\* last of them, and when the loop is over there is one call per record and
\* every record carries the last_check stamp of its own turn.
C4_SweepFetchesEachOnce ==
    (sw_alone /\ sw_result # "none") =>
        /\ sw_result # "aborted"
        /\ Len(sw_fetched) <= Len(packages)
        /\ \A i \in DOMAIN sw_fetched : sw_fetched[i].id = packages[i].id
        /\ sw_pc = "fetch" =>
              /\ Len(sw_fetched) = sw_pos
              /\ \A i \in DOMAIN sw_fetched :
                    (sw_fetched[i].outcome = Pending) <=> (i = sw_pos)
        /\ sw_pc = "save" =>
              /\ Len(sw_fetched) = Len(packages)
              /\ \A i \in DOMAIN sw_fetched : sw_fetched[i].outcome # Pending
              /\ \A i \in DOMAIN packages :
                    packages[i].data.last_check = clock - Len(packages) + i - 1

\* a sweep of two records ran alone to its save, the first fetch having
\* raised and the second having answered
C4_Witness ==
    /\ sw_alone
    /\ sw_pc = "save"
    /\ Len(packages) = 2
    /\ Len(sw_fetched) = 2
    /\ sw_fetched[1].outcome \in Raises
    /\ sw_fetched[2].outcome.kind = "release"
    /\ packages[2].data.last_check = clock - 1

\* C5: the install_date of a tracked package never changes: no step of an
\* install or of a sweep changes the install_date of a record or removes
\* the record; the first install sets it to the time of that install, and
\* the record a reinstall writes has update_available = false.
C5_InstallDateFixed ==
    [][ /\ \A k \in Keys(packages) :
              /\ k \in Keys(packages')
              /\ Get(packages', k).install_date = Get(packages, k).install_date
        /\ (InstallCallStep /\ in_pid' \notin Keys(packages)) =>
              Get(packages', in_pid').install_date = clock
        /\ (InstallCallStep /\ in_pid' \in Keys(packages)) =>
              Get(packages', in_pid').update_available = FALSE
      ]_vars

\* a package was installed, swept with an update found, and reinstalled
C5_Witness ==
    /\ in_pc = "idle"
    /\ ~in_new
    /\ in_ret \in Keys(packages)
    /\ LET r == Get(packages, in_ret)
       IN  /\ r.install_date = 1
           /\ r.last_check > r.install_date
           /\ r.last_update > r.last_check
           /\ r.update_available = FALSE
           /\ r.installed_version = "v1.1"

\* C6: whenever neither an install nor a sweep is in progress, the table
\* last handed to the storage helper is the in-memory packages mapping.
C6_PersistedEqualsMemory ==
    (in_pc = "idle" /\ sw_pc = "idle") => stored = packages

\* the arguments of the end-to-end scenario
CardsV10 == Args(cards, acme, "lovelace", "v1.0", NoneStr, NoneStr)

\* C7: from the empty ledger, add_or_update("cards", "acme", "lovelace",
\* "v1.0") alone leaves exactly one record, with installed_version =
\* latest_version = "v1.0" and update_available = false; once a sweep that
\* started after that install returned has had its fetch answered with tag
\* "v1.1", that record has installed_version = "v1.0", latest_version =
\* "v1.1", update_available = true and last_check set.
C7_EndToEnd ==
    (n_installs = 1 /\ in_args = CardsV10) =>
        /\ sw_result \in {"none", "skipped"} =>
              /\ Len(packages) = 1
              /\ packages[1].data.installed_version = "v1.0"
              /\ packages[1].data.latest_version = "v1.0"
              /\ packages[1].data.update_available = FALSE
        /\ ( /\ sw_alone
             /\ sw_result \in {"running", "completed"}
             /\ Len(sw_fetched) = 1
             /\ sw_fetched[1].outcome = [kind |-> "release", tag |-> "v1.1"] ) =>
              /\ Len(packages) = 1
              /\ sw_fetched[1].id = packages[1].id
              /\ packages[1].data.installed_version = "v1.0"
              /\ packages[1].data.latest_version = "v1.1"
              /\ packages[1].data.update_available = TRUE
              /\ packages[1].data.last_check # NoTime

\* the scenario has run to the end of the sweep
C7_Witness ==
    /\ n_installs = 1
    /\ in_args = CardsV10
    /\ in_pc = "idle"
    /\ n_sweeps = 1
    /\ sw_alone
    /\ sw_result = "completed"
    /\ Len(sw_fetched) = 1
    /\ sw_fetched[1].outcome = [kind |-> "release", tag |-> "v1.1"]
    /\ packages[1].data.latest_version = "v1.1"

(***************************************************************************)
(* Properties of package_id, checked under PidSpec.                        *)
(***************************************************************************)
NoUpper(s) == \A i \in DOMAIN s : \A k \in DOMAIN UpperLetters : s[i] # UpperLetters[k]
NoHyphen(s) == \A i \in DOMAIN s : s[i] # "-"

\* C8: for every (owner, repo) pair, async_add_or_update_package and
\* get_package_by_repo compute the same package_id, it holds no uppercase
\* letter and no hyphen, and a spelling of the pair that differs in letter
\* case only gets the same package_id (so does the same spelling again).
C8_PackageIdNormalised ==
    /\ pid_out.add # NoPid =>
          /\ NoUpper(pid_out.add)
          /\ NoHyphen(pid_out.add)
          /\ pid_out.add2 = pid_out.add
    /\ pid_out.lookup # NoPid =>
          /\ NoUpper(pid_out.lookup)
          /\ NoHyphen(pid_out.lookup)
          /\ pid_out.lookup2 = pid_out.lookup
    /\ (pid_out.add # NoPid /\ pid_out.lookup # NoPid) =>
          pid_out.lookup = pid_out.add

\* both places computed the id of a pair with an uppercase letter and a
\* hyphen, whose second spelling differs
C8_Witness ==
    /\ pid_in.owner = <<"A", "-">>
    /\ pid_in.owner2 = <<"a", "-">>
    /\ pid_in.repo_name = <<"a", "A">>
    /\ pid_in.repo_name2 = <<"A", "A">>
    /\ pid_out.add = <<"a", "_", "_", "a", "a">>
    /\ pid_out.lookup = <<"a", "_", "_", "a", "a">>

TheExample ==
    /\ pid_in.owner = My_Org
    /\ pid_in.repo_name = Foo_Bar
    /\ pid_out.add # NoPid

\* C9 as stated: the package_id of owner "My-Org", repo "Foo-Bar" is
\* "my_org_foobar".
C9_Original ==
    TheExample =>
        pid_out.add = <<"m","y","_","o","r","g","_","f","o","o","b","a","r">>

\* C9, amended: the package_id of owner "My-Org", repo "Foo-Bar" is
\* "my_org_foo_bar": every hyphen becomes an underscore, none is removed.
C9_ExampleId ==
    TheExample =>
        pid_out.add = <<"m","y","_","o","r","g","_","f","o","o","_","b","a","r">>

\* the id of the example pair has been computed
C9_Witness == TheExample /\ Len(pid_out.add) = 14

(***************************************************************************)
(* Properties of pick_asset, checked under PaSpec.                         *)
(***************************************************************************)
\* the spellings of ".zip"
ZipSuffixes ==
    { <<".", z, i, p>> : z \in {"z", "Z"}, i \in {"i", "I"}, p \in {"p", "P"} }

\* the asset has a name that ends in .zip, in any letter case
NamedZip(a) ==
    /\ a.has_name
    /\ Len(a.name) >= 4
    /\ SubSeq(a.name, Len(a.name) - 3, Len(a.name)) \in ZipSuffixes

\* C10: pick_asset(release) without asset_name returns the one asset whose
\* name ends in .zip (in any letter case) when the release has exactly one
\* such asset, whatever its other assets; otherwise the one asset of a
\* release with exactly one asset; otherwise it fails, so it fails for two
\* .zip assets and for no assets.  What it returns is an asset of the release.
C10_PickWithoutName ==
    (pa_out # PaPending /\ pa_in.asset_name = <<>>) =>
        LET assets == pa_in.release.assets
            zips == {i \in DOMAIN assets : NamedZip(assets[i])}
        IN  /\ Cardinality(zips) = 1 =>
                  /\ pa_out.ok
                  /\ \A i \in zips : pa_out.asset = assets[i]
            /\ (Cardinality(zips) # 1 /\ Len(assets) = 1) =>
                  /\ pa_out.ok
                  /\ pa_out.asset = assets[1]
            /\ (Cardinality(zips) # 1 /\ Len(assets) # 1) => ~pa_out.ok
            /\ pa_out.ok => \E i \in DOMAIN assets : pa_out.asset = assets[i]

\* the one .zip asset was picked between two assets that are no .zip
C10_Witness ==
    /\ pa_in.asset_name = <<>>
    /\ Len(pa_in.release.assets) = 3
    /\ pa_in.release.assets[1].name = c_txt
    /\ pa_in.release.assets[2].name = B_ZIP
    /\ ~pa_in.release.assets[3].has_name
    /\ pa_out.ok
    /\ pa_out.asset = pa_in.release.assets[2]

\* C11: pick_asset(release, asset_name) with an asset_name returns an asset
\* of the release whose name is asset_name, character for character, when
\* the release has one, and fails when it has none: a release whose only
\* asset, or whose only .zip asset, has another name makes it fail too.
C11_PickByName ==
    (pa_out # PaPending /\ pa_in.asset_name # <<>>) =>
        LET assets == pa_in.release.assets
            named == {i \in DOMAIN assets :
                        assets[i].has_name /\ assets[i].name = pa_in.asset_name}
        IN  /\ pa_out.ok <=> named # {}
            /\ pa_out.ok => \E i \in named : pa_out.asset = assets[i]

\* asked for c.txt, the release holds a.zip alone: the call failed
C11_Witness ==
    /\ pa_in.asset_name = c_txt
    /\ Len(pa_in.release.assets) = 1
    /\ pa_in.release.assets[1].name = a_zip
    /\ pa_out # PaPending
    /\ ~pa_out.ok

\* the step in which the pending get_latest_release answers with outcome o
\* after an install of the same package ran to completion during the fetch
FetchAnswersAfterReinstall(o) ==
    /\ FetchAnswers(o)
    /\ ~sw_data.live
    /\ in_pc = "idle"

\* C17: when async_add_or_update_package for package P ran to completion
\* while the sweep was suspended in get_latest_release for P, what the
\* sweep writes once the fetch has answered (last_check, and latest_version
\* and update_available for a release) is what the record of P holds in the
\* ledger, and in the table the sweep saves.
C17_LastWriterWins ==
    [][ \A o \in FetchOutcomes :
          FetchAnswersAfterReinstall(o) =>
             LET after == Get(packages', sw_pid)
             IN  /\ after.last_check = clock
                 /\ o.kind = "release" =>
                       /\ after.latest_version = o.tag
                       /\ after.update_available = (o.tag # sw_installed)
                 /\ sw_pc' = "save" => Get(stored', sw_pid) = after
      ]_vars

\* C18: no sweep is aborted: a sweep that has started ends by saving the
\* table, after a fetch for every record the ledger held when it started.
C18_SweepNeverAborted ==
    /\ sw_result # "aborted"
    /\ sw_result = "completed" => Len(sw_fetched) >= sw_size

\* C20: every record of the ledger, and of the table last handed to the
\* store, has update_available = (latest_version # installed_version), in
\* every state that installs and sweeps reach from the empty ledger.
C20_UpdateFlagConsistent ==
    /\ \A i \in DOMAIN packages :
          packages[i].data.update_available =
             (packages[i].data.latest_version # packages[i].data.installed_version)
    /\ \A i \in DOMAIN stored :
          stored[i].data.update_available =
             (stored[i].data.latest_version # stored[i].data.installed_version)

\* a sweep that an install ran into has ended, and left an update flagged
C20_Witness ==
    /\ sw_result = "completed"
    /\ ~sw_alone
    /\ n_installs >= 2
    /\ \E i \in DOMAIN packages :
          /\ packages[i].data.update_available
          /\ packages[i].data.installed_version = "v1.1"
          /\ packages[i].data.latest_version = "v1.0"

\* (owner, repo_name) of record d and of arguments a are equal up to letter case
SamePackage(d, a) ==
    /\ Lower(d.owner) = Lower(a.owner)
    /\ Lower(d.repo_name) = Lower(a.repo_name)

\* C21: async_add_or_update_package for one (owner, repo) leaves alone the
\* record of every tracked package whose (owner, repo) differs from it by
\* more than letter case: that record stays in the ledger, under its key,
\* with all its fields.
C21_InstallChangesOnlyItsRecord ==
    [][ InstallCallStep =>
          \A i \in DOMAIN packages :
             ~SamePackage(packages[i].data, in_args') =>
                /\ packages[i].id \in Keys(packages')
                /\ Get(packages', packages[i].id) = packages[i].data
      ]_vars

\* C31: the record that async_add_or_update_package writes has the
\* last_check of the record that was under its package_id before the call,
\* and last_check unset when there was none; the rest of the call leaves the
\* ledger alone, and the last_check of a record changes only in the step of
\* a sweep that stamps that record with the time of the sweep.
C31_LastCheckPreserved ==
    [][ /\ (InstallCallStep /\ in_pid' \in Keys(packages)) =>
              Get(packages', in_pid').last_check = Get(packages, in_pid').last_check
        /\ (InstallCallStep /\ in_pid' \notin Keys(packages)) =>
              /\ in_pid' \in Keys(packages')
              /\ Get(packages', in_pid').last_check = NoTime
        /\ InstallReturnStep => packages' = packages
        /\ \A k \in Keys(packages) \cap Keys(packages') :
              Get(packages', k).last_check # Get(packages, k).last_check =>
                 /\ sw_pc = "fetch"
                 /\ sw_pid = k
                 /\ Get(packages', k).last_check = clock
      ]_vars

\* a package that a sweep had stamped is being reinstalled: the record the
\* call wrote carries the stamp
C31_Witness ==
    /\ in_pc = "save"
    /\ ~in_new
    /\ in_pid \in Keys(packages)
    /\ LET r == Get(packages, in_pid)
       IN  /\ r.last_check # NoTime
           /\ r.last_check > r.install_date
           /\ r.last_update = clock - 1
           /\ r.last_update > r.last_check

\* C32: _create_sensors_for_package is called at most once for a package_id:
\* only by a call of async_add_or_update_package that found no record under
\* its package_id when it started, and only if _add_entities_callback is set
\* when the call comes back from the save; the button is created in that
\* same call if _add_button_entities_callback is set then.  Every other
\* call takes the branch that notifies the listeners and creates nothing.
C32_EntitiesCreatedOnce ==
    [][ /\ InstallCallStep => in_new' = (in_pid' \notin Keys(packages))
        /\ created' # created =>
              /\ InstallReturnStep
              /\ in_new
              /\ add_entities_callback
              /\ \A i \in DOMAIN created : created[i].id # in_pid
              /\ created' = Append(created,
                                   [id |-> in_pid, sensors |-> TRUE,
                                    button |-> add_button_entities_callback])
              /\ in_did' = "create"
        /\ (InstallReturnStep /\ ~(in_new /\ add_entities_callback)) =>
              /\ created' = created
              /\ in_did' = "notify"
      ]_vars

\* a package was installed with both callbacks set and installed again:
\* the second call notified
C32_Witness ==
    /\ in_pc = "idle"
    /\ n_installs >= 2
    /\ ~in_new
    /\ in_did = "notify"
    /\ created = <<[id |-> in_ret, sensors |-> TRUE, button |-> TRUE]>>
    /\ in_ret \in Keys(packages)

(***************************************************************************)
(* Properties of test_auth, checked under AuSpec.                          *)
(***************************************************************************)
\* C12: without a configured token (none, or the empty string) test_auth
\* returns true and issues no request; with a token it issues the request
\* and returns true exactly when the answer has status 200, and returns
\* false, raising nothing, for every other status and for every failure of
\* the request (connection error, timeout).
C12_TestAuth ==
    \A i \in DOMAIN au_log :
        LET e == au_log[i]
        IN  /\ ~e.ret.raised
            /\ ClientToken(au_token) = NoneStr => ~e.sent /\ e.ret.value
            /\ ClientToken(au_token) # NoneStr =>
                  /\ e.sent
                  /\ e.ret.value <=> (e.outcome.kind = "status" /\ e.outcome.status = 200)

C12_Witness ==
    /\ au_token = "secret"
    /\ Len(au_log) = 2
    /\ au_log[1].outcome.kind = "TimeoutError"
    /\ au_log[1].ret = AuthReturned(FALSE)
    /\ au_log[2].outcome = [kind |-> "status", status |-> 200]
    /\ au_log[2].ret = AuthReturned(TRUE)

(***************************************************************************)
(* Properties of the gateway, checked under GwSpec.                        *)
(***************************************************************************)
\* the package_id of the (owner, repo) of the request's body
BodyId == PackageId(gw_req.body.owner, gw_req.body.repo)

\* the record under k is the same in ledgers d and e
SameRecord(d, e, k) == k \in Keys(d) /\ k \in Keys(e) /\ Get(d, k) = Get(e, k)

\* the handler has answered
Answered == gw_pc = "done"

\* the request has a body with owner or repo missing or empty
LacksOwnerOrRepo ==
    /\ gw_req.endpoint \in {"install", "uninstall", "custom/add", "hide", "unhide"}
    /\ ~gw_req.body.bad
    /\ Falsy(gw_req.body.owner) \/ Falsy(gw_req.body.repo)

\* some instance is active
Active == gw_domain.present /\ gw_domain.eids # <<>>

\* the calls of the handler named in names
CallsOf(names) == {i \in DOMAIN gw_calls : gw_calls[i].call \in names}

\* the fetches of GET /repos that need the user's session
UserScoped == {"get_user_orgs", "user_repos"}

\* a call that raised (test_auth raises nothing: its ok is its value)
RaisedCalls == {i \in DOMAIN gw_calls : gw_calls[i].call # "test_auth" /\ ~gw_calls[i].ok}

\* the body of the request could not be read
BadBodyRead ==
    /\ gw_req.body.bad
    /\ gw_req.endpoint \in {"uninstall", "custom/add", "hide", "unhide"}
       \/ (gw_req.endpoint = "install" /\ Active)

\* C13: when POST /uninstall {owner, repo, type} answers success, the step
\* in which the handler called async_remove_package left no record under
\* the package_id of (owner, repo) in the in-memory ledger and in the table
\* handed to the store, and left every other record, and the order of the
\* records, as they were; the ledger is still so when the success is
\* answered.
C13_UninstallRemovesRecord ==
    [][ /\ (gw_pc = "delete" /\ gw_pc' = "remove") =>
              /\ BodyId \notin Keys(packages')
              /\ stored' = packages'
              /\ Keys(packages') = Keys(packages) \ {BodyId}
              /\ \A k \in Keys(packages') : SameRecord(packages, packages', k)
        /\ (gw_pc = "remove" /\ gw_resp' = JsonSuccess) =>
              /\ BodyId \notin Keys(packages')
              /\ BodyId \notin Keys(stored')
              /\ packages' = packages
              /\ stored' = stored ]_vars

C13_Witness ==
    /\ gw_req.endpoint = "uninstall"
    /\ gw_req.body.owner = acme
    /\ gw_req.body.repo = cards
    /\ gw_resp = JsonSuccess
    /\ Len(packages) = 1
    /\ packages[1].id = PackageId(My_Org, Foo_Bar)
    /\ packages[1].data.install_date = 3
    /\ stored = packages

\* C14 as stated: whenever a failure was raised while a handler handled its
\* request, the handler answered with an error status and a JSON error body.
C14_Original ==
    (Answered /\ (BadBodyRead \/ RaisedCalls # {})) =>
        /\ gw_resp.status >= 400
        /\ gw_resp.content = "json"
        /\ gw_resp.body = "error"

\* C14: no exception leaves a handler.  A bad body, and a failure of the
\* service call, the executor job or a coordinator call, is answered with
\* status 500 and a JSON error body by install, refresh, custom/add, hide,
\* unhide and uninstall; a failure of the readme fetch is answered by readme
\* with status 500 and the text "Error"; a failure of a registry fetch of
\* GET /repos is absorbed, and repos answers 200 with the listing.
C14_FailuresAnswered ==
    Answered =>
        /\ gw_resp # Escaped
        /\ gw_resp # NoResponse
        /\ (BadBodyRead \/ RaisedCalls # {}) =>
              IF gw_req.endpoint = "readme" THEN gw_resp = Text(500, "Error")
              ELSE IF gw_req.endpoint = "repos"
              THEN gw_resp.status = 200 /\ gw_resp.body = "list"
              ELSE gw_resp = JsonError(500)

C14_Witness ==
    /\ Answered
    /\ gw_req.endpoint = "readme"
    /\ RaisedCalls # {}
    /\ gw_resp = Text(500, "Error")

C16_RejectsMissingOwnerRepo ==
    (Answered /\ LacksOwnerOrRepo) =>
        /\ gw_resp.status >= 400
        /\ gw_calls = <<>>
        /\ \A p \in gw_hidden : ~Falsy(p[1]) /\ ~Falsy(p[2])
        /\ \A i \in DOMAIN gw_custom :
              ~Falsy(gw_custom[i].owner) /\ ~Falsy(gw_custom[i].repo)

\* C19: GET /repos probes the token in the request itself whenever one is
\* configured; it calls get_user_orgs and fetches the user's repositories
\* only if a token is configured and the probe of this request returned
\* true; when the probe returns false it makes neither call, lists the two
\* public organizations and answers 200 with the listing.
C19_ProbedPerRequest ==
    (Answered /\ gw_req.endpoint = "repos" /\ Active) =>
        LET probed == CallsOf({"test_auth"})
            probe_ok == \E i \in probed : gw_calls[i].ok
        IN  /\ (probed # {}) <=> (gw_token # NoneStr)
            /\ CallsOf(UserScoped) # {} => gw_token # NoneStr /\ probe_ok
            /\ \A i \in CallsOf(UserScoped) : \E j \in probed : j < i
            /\ ~probe_ok =>
                  /\ CallsOf(UserScoped) = {}
                  /\ {gw_calls[i].args.owner : i \in CallsOf({"get_org_repos"})}
                        = {Zing, OnOffPublic}
            /\ gw_resp.status = 200
            /\ gw_resp.body = "list"

C19_Witness ==
    /\ Answered
    /\ gw_req.endpoint = "repos"
    /\ gw_token = "secret"
    /\ gw_calls[1] = Call("test_auth", "e1", NoCallArgs, FALSE)
    /\ CallsOf(UserScoped) = {}
    /\ gw_resp.status = 200
    /\ \E i \in DOMAIN gw_resp.data : gw_resp.data[i].name = FullName(Zing, cards)

CfCalled(name) == \E i \in DOMAIN cf_calls : cf_calls[i].call = name

\* the test_auth of the config flow's last step returned false
CfAuthRefused ==
    \E i \in DOMAIN cf_calls : cf_calls[i].call = "test_auth" /\ ~cf_calls[i].ok

acme_cards == acme \o <<"_">> \o cards
none_x_tool == <<"_">> \o x_tool

\* C23: in a submitted user step, a token (non-blank once stripped) whose
\* test_auth returns false puts invalid_auth on the token field and shows
\* the user form again, with config_data untouched and no entry created;
\* with no token the step makes no test_auth call and goes on to the
\* store-selection step, which loads the store list.
C23_InvalidAuthStays ==
    [][ cf_pc = "user" =>
          LET token == StrippedOrNone(cf_input'.token)
          IN  /\ (token # Missing /\ CfAuthRefused') =>
                    /\ cf_errors' = {<<"token", "invalid_auth">>}
                    /\ cf_pc' = "user"
                    /\ cf_data' = cf_data
                    /\ cf_entry' = NoEntry
                    /\ ~CfCalled("load_store_list")'
              /\ token # Missing => CfCalled("test_auth")'
              /\ token = Missing =>
                    /\ ~CfCalled("test_auth")'
                    /\ cf_errors' = {}
                    /\ cf_pc' \in {"store_selection", "aborted"}
                    /\ CfCalled("load_store_list")'
                    /\ cf_entry' = NoEntry
      ]_vars

C23_Witness ==
    /\ cf_pc = "user"
    /\ cf_input.token = <<" ", "s", " ">>
    /\ cf_errors = {<<"token", "invalid_auth">>}
    /\ cf_calls = <<Call("test_auth", NoneStr, NoCallArgs, FALSE)>>
    /\ cf_data = NoConfigData
    /\ cf_entry = NoEntry

\* C24: the config entry changes only in a submitted store-selection step,
\* which is reached only after a user step without errors stored token and
\* owner; the entry made carries that token and owner and, as
\* pending_installs, exactly the submitted selection; no step of the flow
\* makes a call other than test_auth and load_store_list.
C24_EntryFromSelection ==
    [][ /\ cf_entry' # cf_entry =>
              /\ cf_pc = "store_selection"
              /\ cf_pc' = "created"
              /\ ~cf_entry.created
              /\ cf_errors = {}
              /\ cf_data.token # Missing
              /\ cf_entry' = ConfigEntry(ConfigData(cf_data.token, cf_data.owner,
                                                    cf_input'.packages))
        /\ cf_pc = "user" => cf_entry' = NoEntry
        /\ \A i \in DOMAIN cf_calls' :
              cf_calls'[i].call \in {"test_auth", "load_store_list"}
      ]_vars

C24_Witness ==
    /\ cf_pc = "created"
    /\ cf_input.packages = <<none_x_tool, acme_cards>>
    /\ cf_entry = ConfigEntry(ConfigData(<<"s">>, acme, <<none_x_tool, acme_cards>>))
    /\ cf_calls = <<>>

\* C25: a user step that goes on to the store-selection step while the
\* store list is empty ends the flow with the config entry made from the
\* entered token and owner, with no pending installs.
C25_EmptyStoreFinishesSetup ==
    [][ (cf_pc = "user" /\ cf_pc' # "user" /\ cf_store = <<>>) =>
          /\ cf_pc' = "created"
          /\ cf_entry' = ConfigEntry(ConfigData(cf_data'.token, cf_data'.owner, <<>>))
      ]_vars

(***************************************************************************)
(* Properties of the options flow, checked under OfSpec.                   *)
(***************************************************************************)
zing_x_tool == Zing \o <<"_">> \o x_tool
acme_bar == acme \o <<"_">> \o bar

\* the install service calls of the last submission, in order
OfInstalls ==
    IF of_calls # <<>> /\ of_calls[Len(of_calls)] = RestartNotification
    THEN SubSeq(of_calls, 1, Len(of_calls) - 1)
    ELSE of_calls

\* the restart-required notification was created in the last submission
OfNotified == \E i \in DOMAIN of_calls : of_calls[i] = RestartNotification

\* the positions of the selection whose key is the key of a store package,
\* in selection order
OfMatched ==
    LET hits == {i \in DOMAIN of_selected :
                    \E k \in DOMAIN cf_store : PkgKey(cf_store[k]) = of_selected[i]}
    IN  CHOOSE f \in [1..Cardinality(hits) -> hits] :
           \A a, b \in 1..Cardinality(hits) : a < b => f[a] < f[b]

\* the store package selected at position i: the first one with the key
OfPkg(i) ==
    LET hits == {k \in DOMAIN cf_store : PkgKey(cf_store[k]) = of_selected[i]}
    IN  cf_store[CHOOSE k \in hits : \A j \in hits : k <= j]

\* the owner it is installed for: the entry's owner when it names none
OfOwner(i) ==
    IF OfPkg(i).owner = Missing THEN cf_entry.data.owner ELSE OfPkg(i).owner

\* the type it is installed as
OfType(i) == IF OfPkg(i).type = NoneStr THEN "integration" ELSE OfPkg(i).type

\* it has a repo, an owner and a supported type
OfInstallable(i) ==
    /\ OfPkg(i).repo \notin {Missing, <<>>}
    /\ OfOwner(i) \notin {Missing, <<>>}
    /\ OfType(i) \in {"integration", "lovelace", "blueprints"}

\* C26: after a submission with a non-empty selection, the install calls
\* are, in selection order, one call for each selected package of the store
\* list (a key of no store package gets none); every call but the last
\* succeeded; the batch failed exactly when its last call failed or the
\* next selected package lacks repo or owner or has an unsupported type, and
\* then nothing after it was called, no notification was created and the
\* form "init" is shown again with install_failed; otherwise every selected
\* package of the store list was called for and the flow finished.
C26_StopsAtFirstFailure ==
    (of_pc # "idle" /\ of_selected # <<>>) =>
       LET n == Len(OfInstalls)
           m == Len(OfMatched)
           failed == n >= 1 /\ ~OfInstalls[n].ok
           broken == n < m /\ ~OfInstallable(OfMatched[n + 1])
       IN  /\ n <= m
           /\ \A j \in 1..n :
                 /\ OfInstallable(OfMatched[j])
                 /\ OfInstalls[j].call \in
                       {"install_integration", "install_lovelace", "install_blueprints"}
                 /\ OfInstalls[j].call = ServiceName(OfType(OfMatched[j]))
                 /\ OfInstalls[j].args.owner = OfOwner(OfMatched[j])
                 /\ OfInstalls[j].args.repo = OfPkg(OfMatched[j]).repo
                 /\ j < n => OfInstalls[j].ok
           /\ of_ret \in {"true", "false", "raised"}
           /\ of_ret = "raised" <=> (failed \/ broken)
           /\ of_ret = "raised" =>
                 /\ of_pc = "init"
                 /\ of_errors = {<<"base", "install_failed">>}
                 /\ of_calls = OfInstalls
           /\ of_ret # "raised" =>
                 /\ n = m
                 /\ of_pc = "done"
                 /\ of_errors = {}

C26_Witness ==
    /\ of_pc = "init"
    /\ of_selected = <<acme_cards, acme_bar>>
    /\ of_calls = <<Call("install_lovelace", NoneStr,
                         CallArgs(acme, cards, NoneStr, "zipball", NoneStr), FALSE)>>
    /\ of_ret = "raised"
    /\ of_errors = {<<"base", "install_failed">>}

\* C27: _install_packages returns true exactly when the batch went through
\* and one of its calls was install_integration (a package of type
\* integration, or without a type); the restart-required notification is
\* created exactly when it returned true, so neither after a batch of
\* lovelace and blueprints packages only nor after a batch that failed.
C27_NotificationIffIntegration ==
    LET integration ==
            \E j \in DOMAIN OfInstalls :
               OfInstalls[j].call = "install_integration" /\ OfInstalls[j].ok
    IN  /\ of_ret = "true" <=> (of_ret \in {"true", "false"} /\ integration)
        /\ OfNotified <=> of_ret = "true"
        /\ of_ret = "raised" => ~OfNotified
        /\ ~integration => ~OfNotified
        /\ OfNotified => of_calls[Len(of_calls)] = RestartNotification

C27_Witness ==
    /\ of_pc = "done"
    /\ of_selected = <<acme_cards, none_x_tool>>
    /\ cf_entry.data.owner = acme
    /\ of_ret = "true"
    /\ of_calls = <<Call("install_lovelace", NoneStr,
                         CallArgs(acme, cards, NoneStr, "zipball", NoneStr), TRUE),
                    Call("install_integration", NoneStr,
                         CallArgs(acme, x_tool, NoneStr, "asset", "tool.zip"), TRUE),
                    RestartNotification>>

(***************************************************************************)
(* Properties of the listing of GET /repos, checked under GwSpec.          *)
(***************************************************************************)
\* the name starts with "x-", in any letter case
IsXName(name) == StartsWith(Lower(name), x_dash)

\* the request was handled with a valid authenticated session
Authenticated == \E i \in CallsOf({"test_auth"}) : gw_calls[i].ok

\* the response lists an entry with this full name
ListedName(full_name) ==
    \E k \in DOMAIN gw_resp.data : gw_resp.data[k].name = full_name

\* the repository was fetched with an explicit get_repo that succeeded
Fetched(owner, repo) ==
    \E i \in CallsOf({"get_repo"}) :
       gw_calls[i].ok /\ gw_calls[i].args.owner = owner /\ gw_calls[i].args.repo = repo

\* C28: in the answer of GET /repos an x- repository is listed only if the
\* session is authenticated, or it is a custom repo, or it was fetched on
\* its own (store list, custom fetch); and with an authenticated session
\* every x- repository that an organization listing returned is listed.
C28_XReposShownWhenAuthenticated ==
    (Answered /\ gw_req.endpoint = "repos" /\ Active) =>
        /\ \A k \in DOMAIN gw_resp.data :
              LET e == gw_resp.data[k]
              IN  IsXName(e.repo_name) =>
                     \/ Authenticated
                     \/ IsCustomRepo(gw_custom, e.owner, e.repo_name)
                     \/ Fetched(e.owner, e.repo_name)
        /\ Authenticated =>
              \A i \in CallsOf({"get_org_repos"}) :
                 gw_calls[i].ok =>
                    \A r \in Listed(ForgeOrgRepos(gw_calls[i].args.owner)) :
                       (r.full_name # <<>> /\ IsXName(r.name)) => ListedName(r.full_name)

\* what the i-th call of the request returned: the repositories of a source
SourceRepos(i) ==
    LET c == gw_calls[i]
    IN  IF ~c.ok THEN <<>>
        ELSE IF c.call = "get_repo" THEN <<ForgeRepo(c.args.owner, c.args.repo)>>
        ELSE IF c.call = "get_org_repos" THEN ForgeOrgRepos(c.args.owner)
        ELSE IF c.call = "user_repos" THEN ForgeUserRepos
        ELSE <<>>

\* the repository object with this full name that the i-th call returned
\* and that its source does not leave out: the x- filter applies to the
\* organization listings only
Produced(i, full_name) ==
    {r \in Listed(SourceRepos(i)) :
        /\ r.full_name = full_name
        /\ \/ gw_calls[i].call # "get_org_repos"
           \/ ~IsXName(r.name)
           \/ IsCustomRepo(gw_custom, r.owner, r.name)}

\* the first call of the request that produced an entry with this full name
FirstSource(full_name) ==
    LET from == {i \in DOMAIN gw_calls : Produced(i, full_name) # {}}
    IN  IF from = {} THEN 0 ELSE CHOOSE i \in from : \A j \in from : i <= j

\* C29: the answer of GET /repos holds no two entries with the same full
\* name; each entry is the one made from the repository object of the first
\* source, in the order the sources were processed, that returned the name,
\* and the entries stand in the order of those first sources.
C29_OneEntryPerFullName ==
    (Answered /\ gw_req.endpoint = "repos") =>
        /\ \A a, b \in DOMAIN gw_resp.data :
              gw_resp.data[a].name = gw_resp.data[b].name => a = b
        /\ \A k \in DOMAIN gw_resp.data :
              LET e == gw_resp.data[k]
                  i == FirstSource(e.name)
              IN  /\ i # 0
                  /\ \E r \in Produced(i, e.name) :
                        /\ e.owner = r.owner
                        /\ e.repo_name = r.name
                        /\ e.description = r.description
        /\ \A a, b \in DOMAIN gw_resp.data :
              a < b => FirstSource(gw_resp.data[a].name)
                          <= FirstSource(gw_resp.data[b].name)

C29_Witness ==
    /\ Answered
    /\ gw_req.endpoint = "repos"
    /\ CallsOf({"get_repo"}) = {}
    /\ \E i \in CallsOf({"get_org_repos"}), j \in CallsOf({"user_repos"}) :
          /\ gw_calls[i].ok
          /\ gw_calls[i].args.owner = acme
          /\ gw_calls[j].ok
          /\ i < j
    /\ \E k \in DOMAIN gw_resp.data :
          /\ gw_resp.data[k].name = FullName(acme, cards)
          /\ gw_resp.data[k].description = <<>>
    /\ ListedName(FullName(my_org_foo, bar))

\* C30: handling GET /repos or GET /readme leaves the packages mapping and
\* the saved table as they were, and each entry of the listing has
\* is_installed true exactly when the ledger holds a record of the entry's
\* owner and repository (letter case apart).
C30_ReadsLeaveLedger ==
    [][ (gw_pc = "idle" /\ gw_req'.endpoint \in {"repos", "readme"}) =>
          /\ packages' = packages
          /\ stored' = stored
          /\ \A k \in DOMAIN gw_resp'.data :
                gw_resp'.data[k].is_installed <=>
                   \E i \in DOMAIN packages :
                      SamePackage(packages[i].data, gw_resp'.data[k])
      ]_vars

====
